---- MODULE Spec2Model ----
(***************************************************************************)
(* Verification model of the Auto-iFlow backend control plane.             *)
(*                                                                         *)
(* Fourteen specifications, one for each component or protocol modelled:   *)
(*   SpecQA      - implementation plan, QA sign-off, post-session          *)
(*                 processing and the post-code test runner                *)
(*                 (qa/criteria.py, agents/session.py,                     *)
(*                  spec/post_code_tests.py, qa/proof_gate.py,             *)
(*                  qa/proof_writer.py)                                    *)
(*   SpecSession - the agent session loop (agents/session.py)              *)
(*   SpecGate    - the shell command gate (security/hooks.py)              *)
(*   SpecOrch    - one run of the spec orchestrator                        *)
(*                 (spec/pipeline/orchestrator.py, qa/proof_writer.py)     *)
(*   SpecDirs    - workers allocating numbered spec directories            *)
(*                 (spec/pipeline/orchestrator.py, __init__)               *)
(*   SpecCache   - the project index cache (core/client.py)                *)
(*   SpecScoper  - one run of the preflight scoper                         *)
(*                 (spec/pipeline/preflight_scoper.py)                     *)
(*   SpecContract - one validation of a scope contract                     *)
(*                 (spec/validate_pkg/scope_contract_rules.py)             *)
(*   SpecResolver - one call of resolve_model (core/model_resolver.py)     *)
(*   SpecProofGate - one call of append_acceptance_proofs or of            *)
(*                 validate_proof_gate (qa/proof_writer.py,                *)
(*                 qa/proof_gate.py)                                       *)
(*   SpecQALoop  - the QA validation loop on a complete build              *)
(*                 (qa/criteria.py, qa/loop.py)                            *)
(*   SpecTimeouts - one configurable timeout and an await under it         *)
(*                 (agents/session.py, spec/pipeline/agent_runner.py)      *)
(*   SpecInit    - the data directory and .gitignore of a project          *)
(*                 (init.py)                                               *)
(*   SpecPreflight - one run of the preflight phase                        *)
(*                 (spec/phases/requirements_phases.py)                    *)
(* The variables of a component keep their initial value under the         *)
(* specifications of the other components.                                 *)
(***************************************************************************)
EXTENDS Integers, Sequences, FiniteSets, TLC

VARIABLES
    \* ---- spec directory of one task (SpecQA) ----
    intake_task_type,   \* task_intake.json: task_type
    plan_task_type,     \* implementation_plan.json: task_type ("absent" if no key)
    subtasks,           \* implementation_plan.json: subtask id -> status
    plan_status,        \* implementation_plan.json: status
    planStatus,         \* implementation_plan.json: planStatus
    qa_signoff,         \* implementation_plan.json: qa_signoff.status ("none" if no key)
    plan_post_code,     \* implementation_plan.json: post_code_tests.status ("none" if no key)
    report,             \* post_code_tests.json ("none" status: no file)
    test_plan,          \* resolved test plan: sequence of command names
    head,               \* git HEAD of the project, a commit number; NoCommit
                        \* where git rev-parse HEAD fails (not a repository)
    acceptance_map,     \* task_intake.json: acceptance_map
    proofs,             \* proofs.json: set of [criterion, file]
    session_subtask,    \* coder loop: the subtask of the running session, -1 if none
    last,               \* what the last operation did (observation only)
    \* ---- one agent session (SpecSession) ----
    spc,                \* position of run_agent_session
    idle_timeout,       \* STREAM_IDLE_TIMEOUT_SEC in tenths of a second, 0 = None
    response_text,      \* aggregated transcript: sequence of text chunks
    current_tool,       \* the single current_tool slot ("" = None)
    events,             \* task logger tool events, in order
    msg_count,          \* messages consumed from the stream
    tool_calls,         \* the tool calls the stream has carried, in order: the
                        \* tool name of each (observation only)
    answered,           \* the tool calls whose result the stream has carried
                        \* (observation only)
    blocked_result,     \* the last tool result that was an error with a scope
                        \* phrase or the word blocked: msg_count when handled,
                        \* the message, current_tool before (observation only)
    task_logger,        \* TRUE if get_task_logger returned a logger
    stalled,            \* TRUE once the stream was silent for longer than the
                        \* idle timeout (observation only)
    stream_end,         \* how the stream ended: "open", "finish", "exhausted" or
                        \* "raised" (observation only)
    session_result,     \* (status, response_text-or-reason) returned
    \* ---- one evaluation of the command gate (SpecGate) ----
    gate_input,         \* tool call payload and process context
    gate_decision,      \* "pending", "allow" or "block" with its reason
    \* ---- one run of the spec orchestrator (SpecOrch) ----
    orch_pc,            \* position of SpecOrchestrator.run
    orch_task_type,     \* task_intake.json: task_type, read after the assessment
    assessment_phases,  \* the list self.assessment.phases_to_run() returns
    todo,               \* the phases the running for loop has still to visit
    phase_results,      \* the phases run_phase has run, in order, with success
    _phase_summaries,   \* self._phase_summaries: the phase names that have a summary
    proofs_json,        \* proofs.json: "none", "other" (proofs exist), "default"
    proof_write,        \* how the call of ensure_noncode_proof ended: "none"
                        \* (not called), "ok" or "raised" (observation only)
    orch_return,        \* what run returned: "none", "true" or "false"
    \* ---- workers constructing a SpecOrchestrator in one project (SpecDirs) ----
    worker_pc,          \* worker -> position in SpecOrchestrator.__init__
    spec_number,        \* worker -> the number create_spec_dir chose, 0 if none yet
    lock_holder,        \* the worker inside SpecNumberLock, 0 if none
    spec_dirs,          \* the numbers NNN of the directories NNN-* under specs/
    initial_dirs,       \* the numbers there before any worker (observation only)
    mkdirs,             \* the mkdir calls made: <<worker, number>> (observation only)
    \* ---- the project index cache of one process (SpecCache) ----
    _PROJECT_INDEX_CACHE,  \* the entry of the project's key, or NoEntry
    heap,               \* the (index, capabilities) objects of the process, by id
    caller_pc,          \* caller -> position in _get_cached_project_data
    loaded,             \* caller -> id of the object it loaded, 0 if none
    returned,           \* caller -> id of the object returned to it, 0 if none
    received,           \* caller -> the content it was handed at the return
                        \* (observation only)
    clock,              \* time.time(), in seconds
    \* ---- one run of the preflight scoper (SpecScoper) ----
    scoper_pc,          \* "off", "start" or "done"
    workflow_type,      \* requirements.json: workflow_type
    task_description,   \* the keyword groups the task description matches
    requirements_files, \* requirements.json: files_to_modify
    candidate_files,    \* scope_contract.json: candidate_files
    ipc_files,          \* the project files whose text holds an IPC marker
    task_intake,        \* the intake run_preflight_scoper returns and writes
    \* ---- one validation of a scope contract (SpecContract) ----
    contract_pc,        \* "off", "start" or "done"
    allowed_paths,      \* scope_contract.json: allowed_paths
    forbidden_paths,    \* scope_contract.json: forbidden_paths
    field_errors,       \* the errors found in the other fields of the contract
    validation,         \* the ValidationResult returned
    \* ---- one call of resolve_model (SpecResolver) ----
    resolver_pc,        \* "off", "start" or "done"
    context,            \* the phase, feature and role arguments
    routing,            \* <<source, section>> -> the modelRouting entry
    cli_model,          \* the cli_model argument
    cli_thinking,       \* the cli_thinking argument
    resolution,         \* the (model_id, level, budget) returned
    \* ---- the QA validation loop of one spec directory (SpecQALoop) ----
    qa_loop,            \* position of the loop: off, running, approved, halted
    qa_session,         \* implementation_plan.json: qa_signoff.qa_session
    fix_rounds,         \* fixer sessions the loop has run (observation only)
    \* ---- one configurable timeout (SpecTimeouts) ----
    timeout_pc,         \* off, start, configured, awaited
    timeout_setting,    \* the module constant configured: env key and default
    env_raw,            \* os.environ.get(env_key): a string, or Unset
    timeout_seconds,    \* the module constant, in tenths of a second, 0 = None
    await_duration,     \* how long the awaited step takes, in tenths of a second
    await_outcome,      \* done or TimeoutError ("" before the await)
    \* ---- the data directory of one project (SpecInit) ----
    auto_build_dir,     \* TRUE if <project>/.auto-iflow exists
    marker,             \* TRUE if .auto-iflow/.gitignore_checked exists
    gitignore_exists,   \* TRUE if <project>/.gitignore exists
    gitignore,          \* the lines of .gitignore
    init_ran,           \* init_auto_build_dir has run and repair_gitignore has
                        \* not run since (observation only)
    last_init,          \* what the last call did (observation only)
    \* ---- one run of the preflight phase (SpecPreflight); the phase also
    \*      writes the scoper's and the contract's variables ----
    preflight_pc,       \* off, start, done
    project_index,      \* project_index.json: top_level_dirs and service paths
    task_paths,         \* the project paths _extract_task_paths finds in the
                        \* task description
    contract_task_type, \* scope_contract.json: task_type ("none": no file)
    preflight_result    \* PhaseResult.success: none, ok, failed

qa_vars == <<intake_task_type, plan_task_type, subtasks, plan_status, planStatus,
             qa_signoff, plan_post_code, report, test_plan, head,
             acceptance_map, proofs, session_subtask, last>>
session_vars == <<spc, idle_timeout, response_text, current_tool, events,
                 msg_count, tool_calls, answered, blocked_result, task_logger, stalled,
                 stream_end,
                 session_result>>
gate_vars == <<gate_input, gate_decision>>
orch_vars == <<orch_pc, orch_task_type, assessment_phases, todo, phase_results,
               _phase_summaries, proofs_json, proof_write, orch_return>>
dir_vars == <<worker_pc, spec_number, lock_holder, spec_dirs, initial_dirs, mkdirs>>
cache_vars == <<_PROJECT_INDEX_CACHE, heap, caller_pc, loaded, returned, received, clock>>
scoper_vars == <<scoper_pc, workflow_type, task_description, requirements_files,
                 candidate_files, ipc_files, task_intake>>
contract_vars == <<contract_pc, allowed_paths, forbidden_paths, field_errors,
                   validation>>
resolver_vars == <<resolver_pc, context, routing, cli_model, cli_thinking, resolution>>
loop_vars == <<qa_loop, qa_session, fix_rounds>>
timeout_vars == <<timeout_pc, timeout_setting, env_raw, timeout_seconds,
                  await_duration, await_outcome>>
init_vars == <<auto_build_dir, marker, gitignore_exists, gitignore, init_ran,
               last_init>>
preflight_vars == <<preflight_pc, project_index, task_paths, contract_task_type,
                    preflight_result>>
aux_vars == <<loop_vars, timeout_vars, init_vars, preflight_vars>>
tool_vars == <<scoper_vars, contract_vars, resolver_vars, aux_vars>>
\* the tools other than the one a specification runs
scoper_rest == <<contract_vars, resolver_vars, aux_vars>>
contract_rest == <<scoper_vars, resolver_vars, aux_vars>>
resolver_rest == <<scoper_vars, contract_vars, aux_vars>>
loop_rest == <<scoper_vars, contract_vars, resolver_vars, timeout_vars, init_vars,
               preflight_vars>>
timeout_rest == <<scoper_vars, contract_vars, resolver_vars, loop_vars, init_vars,
                  preflight_vars>>
init_rest == <<scoper_vars, contract_vars, resolver_vars, loop_vars, timeout_vars,
               preflight_vars>>
preflight_rest == <<resolver_vars, loop_vars, timeout_vars, init_vars>>
pipeline_vars == <<orch_vars, dir_vars, cache_vars, tool_vars>>
vars == <<qa_vars, session_vars, gate_vars, pipeline_vars>>

(***************************************************************************)
(* Bounds of the model                                                     *)
(***************************************************************************)
NumSubtasks == 2
MaxCommits == 1
MaxPlanLen == 1

SubtaskIds == 1..NumSubtasks
SubtaskStatuses == {"pending", "in_progress", "completed", "failed"}
TaskTypes == {"code", "analysis"}
CommandStatuses == {"passed", "failed", "timed_out"}

\* _get_latest_commit returning None
NoCommit == -1
NoReport ==
    [status |-> "none", reason |-> "none", commit |-> NoCommit,
     total |-> 0, passed |-> 0, failed |-> 0]
\* what the CLI prints when run_post_code_tests_if_needed returned None
UpToDate == [NoReport EXCEPT !.status = "skipped", !.reason = "up_to_date"]
NoLast ==
    [op |-> "init", tests |-> "notrun", force |-> FALSE, returned |-> NoReport,
     results |-> <<>>, subtask |-> -1, status |-> "none", attempt |-> "none",
     result |-> "none", async_failed |-> FALSE]

(***************************************************************************)
(* progress.is_build_complete: every subtask of the plan is completed.     *)
(***************************************************************************)
is_build_complete(sts) == \A i \in DOMAIN sts : sts[i] = "completed"


(***************************************************************************)
(* qa/proof_gate.py and qa/proof_writer.py                                 *)
(***************************************************************************)
Criteria == {"c1", "c2"}
\* the criteria that are empty after strip()
BlankCriteria == {"", " "}
OutputFiles == <<"out.py">>
AcceptanceMaps ==
    { <<>>,
      << [criterion |-> "c1", file |-> "a.py"], [criterion |-> "c2", file |-> ""] >> }

\* _proof_matches without the comparison of the file
_proof_matches_criterion_only(criterion, file_ref, prfs) ==
    \E p \in prfs : p.criterion = criterion

\* _proof_matches: a proof with the criterion and, if file_ref is given, the file
_proof_matches(criterion, file_ref, prfs) ==
    \E p \in prfs : p.criterion = criterion /\ (file_ref # "" => p.file = file_ref)

\* validate_proof_gate: the ok component of its result
validate_proof_gate(task_type, amap, prfs) ==
    IF task_type # "code" THEN prfs # {}
    ELSE IF amap = <<>> THEN TRUE
    ELSE \A i \in 1..Len(amap) :
             \/ amap[i].criterion \in BlankCriteria
             \/ _proof_matches(amap[i].criterion, amap[i].file, prfs)

\* _has_proof of the proof writer
_has_proof(prfs, criterion, file_ref) ==
    \E p \in prfs : p.criterion = criterion /\ (file_ref # "" => p.file = file_ref)

\* append_acceptance_proofs: the proofs after the loop over the acceptance map
RECURSIVE append_from(_, _, _)
append_from(amap, i, prfs) ==
    IF i > Len(amap) THEN prfs
    ELSE LET file_ref == IF amap[i].file # "" THEN amap[i].file
                         ELSE IF OutputFiles # <<>> THEN OutputFiles[1] ELSE ""
         IN  IF amap[i].criterion \in BlankCriteria
             THEN append_from(amap, i + 1, prfs)
             ELSE IF _has_proof(prfs, amap[i].criterion, file_ref)
             THEN append_from(amap, i + 1, prfs)
             ELSE append_from(amap, i + 1,
                      prfs \cup {[criterion |-> amap[i].criterion, file |-> file_ref]})

\* append_acceptance_proofs that writes a proof only for the entries that
\* name a file
append_acceptance_proofs_named_files(amap, prfs) ==
    prfs \cup {[criterion |-> amap[i].criterion, file |-> amap[i].file] :
                 i \in {k \in 1..Len(amap) : amap[k].file # ""}}

append_acceptance_proofs(amap, prfs) == append_from(amap, 1, prfs)

(***************************************************************************)
(* spec/post_code_tests.py                                                 *)
(***************************************************************************)
\* get_post_code_test_status: the report file first, the plan section otherwise
get_post_code_test_status(rep, plan_section) ==
    IF rep.status # "none" THEN rep.status ELSE plan_section

post_code_tests_passed(rep, plan_section) ==
    get_post_code_test_status(rep, plan_section) = "passed"

\* _get_latest_commit: git rev-parse HEAD, None if it fails
_get_latest_commit == head

\* should_run_post_code_tests without the two truthiness tests of line 345
should_run_when_commits_differ(task_type, rep, latest_commit) ==
    IF task_type # "code" THEN FALSE
    ELSE IF rep.status = "none" THEN TRUE
    ELSE ~(latest_commit = rep.commit)

\* should_run_post_code_tests: code task, and no report, or no commit known on
\* either side, or a report of another commit
should_run_post_code_tests(task_type, rep, latest_commit) ==
    IF task_type # "code" THEN FALSE
    ELSE IF rep.status = "none" THEN TRUE
    ELSE IF latest_commit # NoCommit /\ rep.commit # NoCommit
            /\ latest_commit = rep.commit
         THEN FALSE
    ELSE TRUE

\* _summarize_results counting only the commands whose status is failed
_summarize_results_failed_only(results) ==
    LET total == Len(results)
        passed == Cardinality({i \in 1..Len(results) : results[i] = "passed"})
        failed == Cardinality({i \in 1..Len(results) : results[i] = "failed"})
    IN  [total |-> total, passed |-> passed, failed |-> failed]

\* _summarize_results: failed = total - passed, so timed_out counts as failed
_summarize_results(results) ==
    LET total == Len(results)
        passed == Cardinality({i \in 1..Len(results) : results[i] = "passed"})
    IN  [total |-> total, passed |-> passed, failed |-> total - passed]

\* run_post_code_tests: the report written for the results of the plan's commands
run_post_code_tests(task_type, plan, results, latest_commit) ==
    IF plan = <<>>
    THEN [status |-> IF task_type # "code" THEN "skipped" ELSE "failed",
          reason |-> IF task_type # "code" THEN "noncode" ELSE "no_test_plan",
          commit |-> latest_commit, total |-> 0, passed |-> 0, failed |-> 0]
    ELSE LET summary == _summarize_results(results)
         IN  [status |-> IF summary.failed = 0 THEN "passed" ELSE "failed",
              reason |-> "none",
              commit |-> latest_commit, total |-> summary.total,
              passed |-> summary.passed, failed |-> summary.failed]

(***************************************************************************)
(* qa/criteria.py                                                          *)
(***************************************************************************)
is_qa_approved == qa_signoff = "approved"
is_qa_rejected == qa_signoff = "rejected"

\* should_run_qa without the task type check of lines 143-145
should_run_qa_any_task_type ==
    /\ is_build_complete(subtasks)
    /\ ~is_qa_approved

should_run_qa ==
    /\ intake_task_type = "code"
    /\ is_build_complete(subtasks)
    /\ ~is_qa_approved

\* sync_plan_status_after_qa without the post-code test check of lines 74-79
sync_result_without_test_check ==
    IF qa_signoff # "approved" THEN <<plan_status, planStatus, FALSE>>
    ELSE IF ~is_build_complete(subtasks) THEN <<plan_status, planStatus, FALSE>>
    ELSE IF plan_status = "human_review" /\ planStatus = "review"
         THEN <<plan_status, planStatus, FALSE>>
    ELSE IF plan_status = "done" THEN <<plan_status, planStatus, FALSE>>
    ELSE <<"human_review", "review", TRUE>>

\* sync_plan_status_after_qa: the plan's (status, planStatus) after the call
sync_result ==
    IF qa_signoff # "approved" THEN <<plan_status, planStatus, FALSE>>
    ELSE IF ~is_build_complete(subtasks) THEN <<plan_status, planStatus, FALSE>>
    ELSE IF ~post_code_tests_passed(report, plan_post_code)
         THEN <<"ai_review", "review", FALSE>>
    ELSE IF plan_status = "human_review" /\ planStatus = "review"
         THEN <<plan_status, planStatus, FALSE>>
    ELSE IF plan_status = "done" THEN <<plan_status, planStatus, FALSE>>
    ELSE <<"human_review", "review", TRUE>>

sync_plan_status_after_qa ==
    /\ session_subtask = -1
    /\ plan_status' = sync_result[1]
    /\ planStatus' = sync_result[2]
    /\ last' = [NoLast EXCEPT !.op = "sync"]
    /\ UNCHANGED <<intake_task_type, plan_task_type, subtasks, qa_signoff,
                   plan_post_code, report, test_plan, head, acceptance_map, proofs,
                   session_subtask>>


(***************************************************************************)
(* agents/session.py: post_session_processing                              *)
(*   subtask_id 0 stands for an id the plan does not hold.                 *)
(*   proof_write_ok = FALSE is append_acceptance_proofs raising (the       *)
(*   handler logs "Proof write failed" and goes on).                       *)
(*   results are the statuses of the test plan's commands, were they run.  *)
(*   insights and memory are how extract_session_insights and              *)
(*   save_session_memory ended under _await_with_timeout.                  *)
(***************************************************************************)
AsyncOutcomes == {"ok", "timeout", "error"}

\* an awaited step whose timeout or exception leaves post_session_processing
async_step_propagates(outcome) == outcome = "ok"

\* the try/except around each awaited step (lines 229-261, 264-294, 368-407,
\* 446-485): asyncio.TimeoutError and Exception are logged, processing goes on
async_step_continues(outcome) == TRUE

\* run_post_code_tests_if_needed: the report returned, NoReport standing for None
run_post_code_tests_if_needed(results) ==
    IF should_run_post_code_tests(intake_task_type, report, _get_latest_commit)
    THEN run_post_code_tests(intake_task_type, test_plan, results, _get_latest_commit)
    ELSE NoReport

\* the guard of the call of run_post_code_tests_if_needed (lines 175, 296-299)
reaches_post_code_tests(subtask_id) ==
    /\ subtask_id \in DOMAIN subtasks
    /\ subtasks[subtask_id] = "completed"
    /\ is_build_complete(subtasks)
    /\ (IF plan_task_type = "absent" THEN "code" ELSE plan_task_type) = "code"

\* record_attempt called for the in_progress branch only
record_attempt_in_progress_only(found, subtask_status) ==
    IF ~found THEN "none"
    ELSE IF subtask_status = "completed" THEN "success"
    ELSE IF subtask_status = "in_progress" THEN "failed"
    ELSE "none"

\* record_attempt called also after the early returns
record_attempt_after_early_return(found, subtask_status) ==
    IF found /\ subtask_status = "completed" THEN "success" ELSE "failed"

\* the call of recovery_manager.record_attempt in each branch (lines 200-206,
\* 345-351, 423-429); none after the early returns of lines 152-159
record_attempt(found, subtask_status) ==
    IF ~found THEN "none"
    ELSE IF subtask_status = "completed" THEN "success"
    ELSE "failed"

post_session_processing(subtask_id, proof_write_ok, results, insights, memory) ==
    LET found == subtask_id \in DOMAIN subtasks
        subtask_status == IF found THEN subtasks[subtask_id] ELSE "pending"
        raised == found /\ ~(async_step_continues(insights)
                             /\ async_step_continues(memory))
        test_report == IF ~raised /\ reaches_post_code_tests(subtask_id)
                       THEN run_post_code_tests_if_needed(results)
                       ELSE NoReport
        attempt == record_attempt(found, subtask_status)
        result == IF raised THEN "raised"
                  ELSE IF found /\ subtask_status = "completed" THEN "true" ELSE "false"
    IN
    /\ session_subtask = subtask_id
    /\ session_subtask' = -1
    /\ proofs' = IF found /\ subtask_status = "completed" /\ proof_write_ok
                 THEN append_acceptance_proofs(acceptance_map, proofs)
                 ELSE proofs
    /\ report' = IF test_report.status # "none" THEN test_report ELSE report
    /\ plan_post_code' = IF test_report.status # "none" THEN test_report.status
                         ELSE plan_post_code
    /\ last' = [NoLast EXCEPT !.op = "post_session",
                              !.tests = IF test_report.status # "none"
                                        THEN test_report.status ELSE "notrun",
                              !.returned = test_report,
                              !.results = IF test_report.status # "none"
                                          THEN results ELSE <<>>,
                              !.subtask = subtask_id,
                              !.status = IF found THEN subtask_status ELSE "none",
                              !.attempt = attempt,
                              !.result = result,
                              !.async_failed = found /\ (insights # "ok" \/ memory # "ok")]
    /\ UNCHANGED <<intake_task_type, plan_task_type, subtasks, plan_status, planStatus,
                   qa_signoff, test_plan, head, acceptance_map>>

(***************************************************************************)
(* spec/post_code_tests_cli.py: main                                       *)
(***************************************************************************)
post_code_tests_cli(force, results) ==
    LET rep == IF force
               THEN run_post_code_tests(intake_task_type, test_plan, results,
                                        _get_latest_commit)
               ELSE run_post_code_tests_if_needed(results)
        \* the report printed: lines 32-36 replace None
        printed == IF rep.status = "none" THEN UpToDate ELSE rep
    IN
    /\ report' = IF rep.status # "none" THEN rep ELSE report
    /\ plan_post_code' = IF rep.status # "none" THEN rep.status ELSE plan_post_code
    /\ last' = [NoLast EXCEPT !.op = "cli",
                              !.tests = IF rep.status # "none" THEN rep.status
                                        ELSE "notrun",
                              !.force = force,
                              !.returned = printed,
                              !.results = IF rep.status # "none"
                                          THEN results ELSE <<>>]
    /\ UNCHANGED <<intake_task_type, plan_task_type, subtasks, plan_status, planStatus,
                   qa_signoff, test_plan, head, acceptance_map, proofs, session_subtask>>

(***************************************************************************)
(* The collaborators of the spec directory: the coder loop, which starts   *)
(* a session for a subtask that is not completed and runs post-session     *)
(* processing when the session ends; the coding agent, which rewrites      *)
(* subtask statuses during a session and commits; the QA reviewer and      *)
(* fixer, which write qa_signoff once no session runs.                     *)
(* Subtask id 0 stands for an id the plan no longer holds at session end.  *)
(***************************************************************************)
start_session(id) ==
    /\ session_subtask = -1
    /\ IF id \in DOMAIN subtasks THEN subtasks[id] # "completed" ELSE TRUE
    /\ ~is_build_complete(subtasks)
    /\ session_subtask' = id
    /\ last' = [NoLast EXCEPT !.op = "agent"]
    /\ UNCHANGED <<intake_task_type, plan_task_type, subtasks, plan_status, planStatus,
                   qa_signoff, plan_post_code, report, test_plan, head,
                   acceptance_map, proofs>>

agent_updates_subtask(i, st) ==
    /\ session_subtask # -1
    /\ subtasks[i] # st
    /\ subtasks' = [subtasks EXCEPT ![i] = st]
    /\ last' = [NoLast EXCEPT !.op = "agent"]
    /\ UNCHANGED <<intake_task_type, plan_task_type, plan_status, planStatus,
                   qa_signoff, plan_post_code, report, test_plan, head,
                   acceptance_map, proofs, session_subtask>>

agent_commits ==
    /\ head # NoCommit
    /\ head < MaxCommits
    /\ head' = head + 1
    /\ last' = [NoLast EXCEPT !.op = "agent"]
    /\ UNCHANGED <<intake_task_type, plan_task_type, subtasks, plan_status, planStatus,
                   qa_signoff, plan_post_code, report, test_plan,
                   acceptance_map, proofs, session_subtask>>

qa_reviewer_verdict(verdict) ==
    /\ session_subtask = -1
    /\ should_run_qa
    /\ qa_signoff' = verdict
    /\ last' = [NoLast EXCEPT !.op = "qa"]
    /\ UNCHANGED <<intake_task_type, plan_task_type, subtasks, plan_status, planStatus,
                   plan_post_code, report, test_plan, head, acceptance_map, proofs,
                   session_subtask>>

qa_fixes_round ==
    /\ session_subtask = -1
    /\ is_qa_rejected
    /\ qa_signoff' = "fixes_applied"
    /\ last' = [NoLast EXCEPT !.op = "qa"]
    /\ UNCHANGED <<intake_task_type, plan_task_type, subtasks, plan_status, planStatus,
                   plan_post_code, report, test_plan, head, acceptance_map, proofs,
                   session_subtask>>

(***************************************************************************)
(* Idle values of the components a specification does not run              *)
(***************************************************************************)
NoResult == [status |-> "none", text |-> <<>>, reason |-> "none", secs |-> 0]
NoBlockedResult == [at |-> 0]
NoGateInput == [tool_name |-> "none"]
NoDecision == [decision |-> "pending", reason |-> "none"]

SessionIdle ==
    /\ spc = "off" /\ idle_timeout = 0 /\ response_text = <<>> /\ current_tool = ""
    /\ events = <<>> /\ msg_count = 0 /\ tool_calls = <<>> /\ answered = {}
    /\ blocked_result = NoBlockedResult
    /\ task_logger = FALSE /\ stalled = FALSE /\ stream_end = "open"
    /\ session_result = NoResult

GateIdle == gate_input = NoGateInput /\ gate_decision = NoDecision

OrchIdle ==
    /\ orch_pc = "off" /\ orch_task_type = "code" /\ assessment_phases = <<>>
    /\ todo = <<>> /\ phase_results = <<>> /\ _phase_summaries = {}
    /\ proofs_json = "none" /\ proof_write = "none" /\ orch_return = "none"

NoEntry == [present |-> FALSE, obj |-> 0, time |-> 0]

DirsIdle ==
    /\ worker_pc = <<>> /\ spec_number = <<>> /\ lock_holder = 0
    /\ spec_dirs = {} /\ initial_dirs = {} /\ mkdirs = {}

CacheIdle ==
    /\ _PROJECT_INDEX_CACHE = NoEntry /\ heap = <<>> /\ caller_pc = <<>>
    /\ loaded = <<>> /\ returned = <<>> /\ received = <<>> /\ clock = 0

NoIntake ==
    [task_type |-> "none", files_to_modify |-> <<>>, files_to_modify_source |-> "none",
     files_to_modify_inferred |-> FALSE, tests_to_run |-> <<>>,
     clarifying_questions |-> {}]

ScoperIdle ==
    /\ scoper_pc = "off" /\ workflow_type = "" /\ task_description = {}
    /\ requirements_files = <<>> /\ candidate_files = <<>> /\ ipc_files = {}
    /\ task_intake = NoIntake

ContractIdle ==
    /\ contract_pc = "off" /\ allowed_paths = <<>> /\ forbidden_paths = <<>>
    /\ field_errors = {} /\ validation = [valid |-> FALSE, errors |-> {}, warnings |-> {}]

ResolverIdle ==
    /\ resolver_pc = "off" /\ context = <<>> /\ routing = <<>>
    /\ cli_model = "None" /\ cli_thinking = "None" /\ resolution = <<>>

LoopIdle == qa_loop = "off" /\ qa_session = 0 /\ fix_rounds = 0

TimeoutIdle ==
    /\ timeout_pc = "off" /\ timeout_setting = <<>> /\ env_raw = ""
    /\ timeout_seconds = 0 /\ await_duration = 0 /\ await_outcome = ""

NoInitCall == [op |-> "none", scanned |-> FALSE, added |-> {}]
InitDirIdle ==
    /\ auto_build_dir = FALSE /\ marker = FALSE /\ gitignore_exists = FALSE
    /\ gitignore = {} /\ init_ran = FALSE /\ last_init = NoInitCall

NoProjectIndex == [top_level_dirs |-> <<>>, services |-> <<>>]
PreflightIdle ==
    /\ preflight_pc = "off" /\ project_index = NoProjectIndex /\ task_paths = <<>>
    /\ contract_task_type = "none" /\ preflight_result = "none"

AuxIdle == LoopIdle /\ TimeoutIdle /\ InitDirIdle /\ PreflightIdle
ToolsIdle == ScoperIdle /\ ContractIdle /\ ResolverIdle /\ AuxIdle
ScoperRestIdle == ContractIdle /\ ResolverIdle /\ AuxIdle
ContractRestIdle == ScoperIdle /\ ResolverIdle /\ AuxIdle
ResolverRestIdle == ScoperIdle /\ ContractIdle /\ AuxIdle
LoopRestIdle ==
    ScoperIdle /\ ContractIdle /\ ResolverIdle /\ TimeoutIdle /\ InitDirIdle /\ PreflightIdle
TimeoutRestIdle ==
    ScoperIdle /\ ContractIdle /\ ResolverIdle /\ LoopIdle /\ InitDirIdle /\ PreflightIdle
InitDirRestIdle ==
    ScoperIdle /\ ContractIdle /\ ResolverIdle /\ LoopIdle /\ TimeoutIdle /\ PreflightIdle
PreflightRestIdle == ResolverIdle /\ LoopIdle /\ TimeoutIdle /\ InitDirIdle

PipelineIdle == OrchIdle /\ DirsIdle /\ CacheIdle /\ ToolsIdle

QAIdle ==
    /\ intake_task_type = "code" /\ plan_task_type = "absent"
    /\ plan_status = "in_progress" /\ planStatus = "in_progress"
    /\ qa_signoff = "none" /\ plan_post_code = "none" /\ report = NoReport
    /\ subtasks = <<>>
    /\ test_plan = <<>> /\ head = 0 /\ acceptance_map = <<>> /\ proofs = {}
    /\ session_subtask = -1 /\ last = NoLast

(***************************************************************************)
(* SpecQA: one spec directory, from a fresh plan                           *)
(***************************************************************************)
InitQA ==
    /\ \E tt \in {<<"code", "absent">>, <<"code", "analysis">>, <<"analysis", "absent">>} :
          intake_task_type = tt[1] /\ plan_task_type = tt[2]
    /\ subtasks = [i \in SubtaskIds |-> "pending"]
    /\ plan_status = "in_progress" /\ planStatus = "in_progress"
    /\ qa_signoff = "none" /\ plan_post_code = "none" /\ report = NoReport
    /\ test_plan \in {[i \in 1..n |-> i] : n \in 0..MaxPlanLen}
    /\ head \in {NoCommit, 0}
    /\ acceptance_map \in AcceptanceMaps
    /\ proofs = {}
    /\ session_subtask = -1
    /\ last = NoLast
    /\ SessionIdle /\ GateIdle /\ PipelineIdle

\* the outcomes a run of the test plan's commands can have
TestOutcomes == [1..Len(test_plan) -> CommandStatuses]

NextQA ==
    \/ /\ \E id \in {0} \cup SubtaskIds : start_session(id)
       /\ UNCHANGED <<session_vars, gate_vars, pipeline_vars>>
    \/ /\ \E i \in SubtaskIds, st \in SubtaskStatuses : agent_updates_subtask(i, st)
       /\ UNCHANGED <<session_vars, gate_vars, pipeline_vars>>
    \/ /\ agent_commits
       /\ UNCHANGED <<session_vars, gate_vars, pipeline_vars>>
    \/ /\ \E verdict \in {"approved", "rejected"} : qa_reviewer_verdict(verdict)
       /\ UNCHANGED <<session_vars, gate_vars, pipeline_vars>>
    \/ /\ qa_fixes_round
       /\ UNCHANGED <<session_vars, gate_vars, pipeline_vars>>
    \/ /\ sync_plan_status_after_qa
       /\ UNCHANGED <<session_vars, gate_vars, pipeline_vars>>
    \/ /\ \E subtask_id \in {0} \cup SubtaskIds :
            \E proof_write_ok \in IF subtask_id \in SubtaskIds
                                    /\ subtasks[subtask_id] = "completed"
                                  THEN BOOLEAN ELSE {TRUE},
               results \in IF reaches_post_code_tests(subtask_id)
                              /\ should_run_post_code_tests(intake_task_type, report,
                                                            _get_latest_commit)
                           THEN TestOutcomes ELSE {<<>>},
               insights \in IF subtask_id \in SubtaskIds THEN AsyncOutcomes ELSE {"ok"},
               memory \in IF subtask_id \in SubtaskIds THEN AsyncOutcomes ELSE {"ok"} :
               post_session_processing(subtask_id, proof_write_ok, results,
                                       insights, memory)
       /\ UNCHANGED <<session_vars, gate_vars, pipeline_vars>>
    \/ /\ \E force \in BOOLEAN :
            \E results \in IF force
                              \/ should_run_post_code_tests(intake_task_type, report,
                                                            _get_latest_commit)
                           THEN TestOutcomes ELSE {<<>>} :
               post_code_tests_cli(force, results)
       /\ UNCHANGED <<session_vars, gate_vars, pipeline_vars>>

SpecQA == InitQA /\ [][NextQA]_vars


(***************************************************************************)
(* agents/session.py: run_agent_session                                    *)
(*   Times are in tenths of a second.  A text is a sequence of characters, *)
(*   so that += is concatenation.  One action is one turn of the receive   *)
(*   loop: the wait for the next message and the handling of what came.    *)
(***************************************************************************)
MaxMsgs == 3
IdleTimeouts == {0, 15, 20}          \* None, 1.5 s, 2 s
Gaps == {1, 17, 30}                  \* silence before the next stream item
Chunks == {<<>>, <<"a">>}
Tools == {"Bash", "Read"}

Msgs ==
    [type : {"AssistantMessage"}, block : {"TextBlock"}, text : Chunks]
    \cup [type : {"AssistantMessage"}, block : {"ToolUseBlock"}, name : Tools]
    \cup [type : {"AssistantMessage"}, block : {"chunk"}, text : Chunks]
    \cup [type : {"ToolCallMessage"}, name : Tools \cup {""},
          has_result : BOOLEAN, failed : BOOLEAN]
    \cup [type : {"UserMessage"}, block : {"ToolResultBlock"}, call : 1..MaxMsgs,
          is_error : BOOLEAN, scope_keyword : BOOLEAN, blocked_word : BOOLEAN]
    \cup [type : {"TaskFinishMessage"}]
    \cup [type : {"SystemMessage"}]

\* task_logger.tool_start / tool_end as logged; call is not an argument of the
\* logger: it records which tool call of the stream was being handled
tool_start(name, call) ==
    [ev |-> "tool_start", tool |-> name, success |-> TRUE, result |-> "",
     call |-> call]
tool_end(name, success, result, call) ==
    [ev |-> "tool_end", tool |-> name, success |-> success, result |-> result,
     call |-> call]

\* asyncio.wait_for around __anext__ without a timeout: the item always comes
wait_without_timeout(timeout, gap) == "item"

\* lines 548-554: what the wait for the next stream item yields
wait_for(timeout, gap) ==
    IF timeout = 0 THEN "item"
    ELSE IF gap > timeout THEN "TimeoutError" ELSE "item"

\* line 558: int(STREAM_IDLE_TIMEOUT_SEC), whole seconds
timeout_display(timeout) == timeout \div 10

\* lines 557-570: the return on asyncio.TimeoutError
idle_timeout_return(timeout) ==
    [status |-> "error", text |-> <<>>,
     reason |-> "No agent output for {secs}s; aborting session",
     secs |-> timeout_display(timeout)]

\* the return after the loop, always "continue"
session_return_continue(sts, text) ==
    [status |-> "continue", text |-> text, reason |-> "none", secs |-> 0]

\* lines 856-874: the return after the loop
session_return(sts, text) ==
    IF is_build_complete(sts)
    THEN [status |-> "complete", text |-> text, reason |-> "none", secs |-> 0]
    ELSE [status |-> "continue", text |-> text, reason |-> "none", secs |-> 0]

\* lines 876-887: the return on any other exception
exception_return ==
    [status |-> "error", text |-> <<>>, reason |-> "str(e)", secs |-> 0]

\* the tool-end logged for one ToolResultBlock when every error is taken for
\* a generic error
tool_result_events_unclassified(msg, tool, logger) ==
    IF ~(logger /\ tool # "") THEN <<>>
    ELSE IF msg.is_error THEN <<tool_end(tool, FALSE, "error", msg.call)>>
    ELSE <<tool_end(tool, TRUE, "", msg.call)>>

\* the tool-end logged for one ToolResultBlock without the test that the
\* current_tool slot holds a tool
tool_result_events_any_slot(msg, tool, logger) ==
    IF ~logger THEN <<>>
    ELSE IF msg.is_error /\ (msg.scope_keyword \/ msg.blocked_word)
         THEN <<tool_end(tool, FALSE, "BLOCKED", msg.call)>>
    ELSE IF msg.is_error THEN <<tool_end(tool, FALSE, "error", msg.call)>>
    ELSE <<tool_end(tool, TRUE, "", msg.call)>>

\* lines 758-846: the tool-end logged for one ToolResultBlock, if any
tool_result_events(msg, tool, logger) ==
    IF ~(logger /\ tool # "") THEN <<>>
    ELSE IF msg.is_error /\ msg.scope_keyword
         THEN <<tool_end(tool, FALSE, "BLOCKED", msg.call)>>
    ELSE IF msg.is_error /\ msg.blocked_word
         THEN <<tool_end(tool, FALSE, "BLOCKED", msg.call)>>
    ELSE IF msg.is_error THEN <<tool_end(tool, FALSE, "error", msg.call)>>
    ELSE <<tool_end(tool, TRUE, "", msg.call)>>

\* lines 580-848: the handling of one message that is not TaskFinishMessage;
\* yields the new response_text, current_tool and logged events; next_call is
\* the place in tool_calls of a tool call this message starts
handle_message(msg, text, tool, logger, next_call) ==
    IF msg.type = "AssistantMessage" THEN
        IF msg.block = "TextBlock"
        THEN [text |-> text \o msg.text, tool |-> tool, evs |-> <<>>]
        ELSE IF msg.block = "ToolUseBlock"
        THEN [text |-> text, tool |-> msg.name,
              evs |-> IF logger THEN <<tool_start(msg.name, next_call)>> ELSE <<>>]
        ELSE [text |-> IF msg.text # <<>> THEN text \o msg.text ELSE text,
              tool |-> tool, evs |-> <<>>]
    ELSE IF msg.type = "ToolCallMessage" THEN
        [text |-> text,
         tool |-> IF msg.has_result THEN "" ELSE msg.name,
         evs |-> (IF logger /\ msg.name # ""
                  THEN <<tool_start(msg.name, next_call)>> ELSE <<>>)
                 \o (IF msg.has_result /\ logger /\ msg.name # ""
                     THEN <<tool_end(msg.name, ~msg.failed, "", next_call)>>
                     ELSE <<>>)]
    ELSE IF msg.type = "UserMessage" THEN
        [text |-> text, tool |-> "", evs |-> tool_result_events(msg, tool, logger)]
    ELSE [text |-> text, tool |-> tool, evs |-> <<>>]

\* the message carries a tool call: a ToolUseBlock or a ToolCallMessage
starts_tool_call(msg) ==
    \/ msg.type = "ToolCallMessage"
    \/ msg.type = "AssistantMessage" /\ msg.block = "ToolUseBlock"

\* lines 536-543: send the prompt and open the stream
send_agent_message ==
    /\ spc = "send"
    /\ spc' = "stream"
    /\ response_text' = <<>>
    /\ UNCHANGED <<idle_timeout, current_tool, events, msg_count, tool_calls,
                   answered, blocked_result, task_logger, stalled, stream_end, session_result>>

\* lines 545-852: one turn of the loop in which the stream has a message
receive_message(gap, msg) ==
    /\ spc = "stream"
    /\ msg_count < MaxMsgs
    /\ msg.type = "UserMessage" => msg.call \in DOMAIN tool_calls \ answered
    /\ stalled' = (stalled \/ (idle_timeout # 0 /\ gap > idle_timeout))
    /\ IF wait_for(idle_timeout, gap) = "TimeoutError"
       THEN /\ spc' = "done"
            /\ session_result' = idle_timeout_return(idle_timeout)
            /\ UNCHANGED <<response_text, current_tool, events, msg_count, stream_end,
                           tool_calls, answered, blocked_result>>
       ELSE IF msg.type = "TaskFinishMessage"
       THEN /\ spc' = "done"
            /\ msg_count' = msg_count + 1
            /\ stream_end' = "finish"
            /\ session_result' = session_return(subtasks, response_text)
            /\ UNCHANGED <<response_text, current_tool, events, tool_calls, answered,
                           blocked_result>>
       ELSE LET next_call == Len(tool_calls) + 1
                h == handle_message(msg, response_text, current_tool, task_logger,
                                    next_call)
            IN /\ msg_count' = msg_count + 1
               /\ tool_calls' = IF starts_tool_call(msg)
                                THEN Append(tool_calls, msg.name) ELSE tool_calls
               /\ blocked_result' =
                      IF /\ msg.type = "UserMessage"
                         /\ msg.is_error
                         /\ (msg.scope_keyword \/ msg.blocked_word)
                      THEN [at |-> msg_count + 1, msg |-> msg, slot |-> current_tool]
                      ELSE blocked_result
               /\ answered' = IF msg.type = "UserMessage"
                              THEN answered \cup {msg.call}
                              ELSE IF msg.type = "ToolCallMessage" /\ msg.has_result
                              THEN answered \cup {next_call}
                              ELSE answered
               /\ response_text' = h.text
               /\ current_tool' = h.tool
               /\ events' = events \o h.evs
               /\ UNCHANGED <<spc, stream_end, session_result>>
    /\ UNCHANGED <<idle_timeout, task_logger>>

\* lines 545-556, 854-874: one turn of the loop in which the stream is exhausted
stream_exhausted(gap) ==
    /\ spc = "stream"
    /\ stalled' = (stalled \/ (idle_timeout # 0 /\ gap > idle_timeout))
    /\ spc' = "done"
    /\ IF wait_for(idle_timeout, gap) = "TimeoutError"
       THEN /\ session_result' = idle_timeout_return(idle_timeout)
            /\ UNCHANGED stream_end
       ELSE /\ stream_end' = "exhausted"
            /\ session_result' = session_return(subtasks, response_text)
    /\ UNCHANGED <<idle_timeout, response_text, current_tool, events, msg_count,
                   tool_calls, answered, blocked_result, task_logger>>

\* lines 876-887: send or the stream raises
session_raises ==
    /\ spc \in {"send", "stream"}
    /\ spc' = "done"
    /\ stream_end' = "raised"
    /\ session_result' = exception_return
    /\ UNCHANGED <<idle_timeout, response_text, current_tool, events, msg_count,
                   tool_calls, answered, blocked_result, task_logger, stalled>>

\* the agent's tools mark the session's subtask in the plan while the session
\* streams
agent_edits_plan(i, st) ==
    /\ spc = "stream"
    /\ agent_updates_subtask(i, st)

(***************************************************************************)
(* SpecSession: one call of run_agent_session                              *)
(***************************************************************************)
InitSession ==
    /\ intake_task_type = "code" /\ plan_task_type = "absent"
    /\ plan_status = "in_progress" /\ planStatus = "in_progress"
    /\ qa_signoff = "none" /\ plan_post_code = "none" /\ report = NoReport
    /\ session_subtask = 1
    /\ \E mine \in {"pending", "completed"}, others \in {"pending", "completed"} :
           subtasks = [i \in SubtaskIds |-> IF i = session_subtask THEN mine ELSE others]
    /\ test_plan = <<>> /\ head = 0 /\ acceptance_map = <<>> /\ proofs = {}
    /\ last = NoLast
    /\ spc = "send"
    /\ idle_timeout \in IdleTimeouts
    /\ response_text = <<>> /\ current_tool = "" /\ events = <<>> /\ msg_count = 0
    /\ tool_calls = <<>> /\ answered = {} /\ blocked_result = NoBlockedResult
    /\ task_logger \in BOOLEAN
    /\ stalled = FALSE /\ stream_end = "open" /\ session_result = NoResult
    /\ GateIdle /\ PipelineIdle

NextSession ==
    \/ /\ send_agent_message
       /\ UNCHANGED <<qa_vars, gate_vars, pipeline_vars>>
    \/ /\ \E gap \in Gaps, msg \in Msgs : receive_message(gap, msg)
       /\ UNCHANGED <<qa_vars, gate_vars, pipeline_vars>>
    \/ /\ \E gap \in Gaps : stream_exhausted(gap)
       /\ UNCHANGED <<qa_vars, gate_vars, pipeline_vars>>
    \/ /\ session_raises
       /\ UNCHANGED <<qa_vars, gate_vars, pipeline_vars>>
    \/ /\ agent_edits_plan(session_subtask, "completed")
       /\ UNCHANGED <<session_vars, gate_vars, pipeline_vars>>

SpecSession == InitSession /\ [][NextSession]_vars

(***************************************************************************)
(* security/hooks.py: bash_security_hook                                   *)
(*   A command string is a sequence of tokens: a word, the blank " ", an   *)
(*   operator, or "'" for a quote that is never closed.                    *)
(***************************************************************************)
MaxCmdLen == 3
Words == {"pytest", "go", "test", "env"}
Operators == {"&&", "||", ";", "|", ">", "<"}
Tokens == Words \cup {" ", "&&", "'"}
Commands == UNION {[1..n -> Tokens] : n \in 0..MaxCmdLen}

DEFAULT_BLOCKED_TEST_COMMANDS ==
    << <<"npm", " ", "test">>, <<"npm", " ", "run", " ", "test">>,
       <<"npm", " ", "run", " ", "test:backend">>,
       <<"npm", " ", "run", " ", "test:e2e">>,
       <<"pnpm", " ", "test">>, <<"pnpm", " ", "run", " ", "test">>,
       <<"yarn", " ", "test">>, <<"pytest">>, <<"go", " ", "test">>,
       <<"cargo", " ", "test">>, <<"bundle", " ", "exec", " ", "rspec">>,
       <<"dotnet", " ", "test">>, <<"mvn", " ", "test">>,
       <<"gradle", " ", "test">> >>

NON_CODE_BLOCKED_COMMANDS ==
    << <<"npm", " ", "test">>, <<"npm", " ", "run", " ", "test">>,
       <<"npm", " ", "run", " ", "test:backend">>,
       <<"npm", " ", "run", " ", "test:e2e">>,
       <<"npm", " ", "run", " ", "build">>,
       <<"npm", " ", "run", " ", "package">>,
       <<"pnpm", " ", "test">>, <<"pnpm", " ", "run", " ", "test">>,
       <<"yarn", " ", "test">>, <<"pytest">>, <<"go", " ", "test">>,
       <<"cargo", " ", "test">>, <<"bundle", " ", "exec", " ", "rspec">>,
       <<"dotnet", " ", "test">>, <<"mvn", " ", "test">>,
       <<"gradle", " ", "test">>, <<"git", " ", "commit">>,
       <<"git", " ", "merge">>, <<"git", " ", "rebase">>,
       <<"git", " ", "cherry-pick">>, <<"./init.sh">>,
       <<"chmod", " ", "+x", " ", "init.sh">> >>

\* project_analyzer.BASE_COMMANDS, as far as the words of the model go
BASE_COMMANDS == {"env", "go"}

\* str.split(): the words of a string
split(s) == SelectSeq(s, LAMBDA t : t # " ")

\* " ".join(words)
RECURSIVE join(_)
join(ws) ==
    IF ws = <<>> THEN <<>>
    ELSE IF Len(ws) = 1 THEN ws
    ELSE <<Head(ws), " ">> \o join(Tail(ws))

\* str.startswith
startswith(s, prefix) ==
    Len(prefix) <= Len(s) /\ SubSeq(s, 1, Len(prefix)) = prefix

_normalize_command(command) == join(split(command))

\* the test plan of the environment variable: blank entries dropped, the
\* others normalized
_load_test_plan_from_env(raw) ==
    LET kept == SelectSeq(raw, LAMBDA entry : split(entry) # <<>>)
    IN [i \in 1..Len(kept) |-> _normalize_command(kept[i])]

\* a match by equality only
_segment_equals_test_plan(segment, plan_commands) ==
    \E i \in DOMAIN plan_commands :
        _normalize_command(segment) = _normalize_command(plan_commands[i])

_segment_matches_test_plan(segment, plan_commands) ==
    IF plan_commands = <<>> THEN FALSE
    ELSE LET segment_norm == _normalize_command(segment)
         IN IF segment_norm = <<>> THEN FALSE
            ELSE \E i \in DOMAIN plan_commands :
                    LET plan_norm == _normalize_command(plan_commands[i])
                    IN /\ plan_norm # <<>>
                       /\ \/ segment_norm = plan_norm
                          \/ startswith(segment_norm, plan_norm \o <<" ">>)
                          \/ startswith(plan_norm, segment_norm \o <<" ">>)

\* TASK_TYPE of the environment, else task_type of task_intake.json, else code
_resolve_task_type(env_value, intake_value) ==
    IF env_value # "" THEN env_value
    ELSE IF intake_value # "" THEN intake_value
    ELSE "code"

\* security/parser.py: the segments of a command, split at && || ; | > <
RECURSIVE split_from(_, _, _)
split_from(command, i, segment) ==
    IF i > Len(command) THEN <<segment>>
    ELSE IF command[i] \in Operators
         THEN <<segment>> \o split_from(command, i + 1, <<>>)
         ELSE split_from(command, i + 1, Append(segment, command[i]))

split_command_segments(command) == split_from(command, 1, <<>>)

\* security/parser.py: the program names a command invokes, the first word
\* after the start and after each of && || ; | ; none on a parse error
RECURSIVE extract_from(_, _, _)
extract_from(command, i, expect_command) ==
    IF i > Len(command) THEN <<>>
    ELSE IF command[i] \in {"&&", "||", ";", "|"}
         THEN extract_from(command, i + 1, TRUE)
    ELSE IF command[i] \in {" ", ">", "<"}
         THEN extract_from(command, i + 1, expect_command)
    ELSE IF expect_command
         THEN <<command[i]>> \o extract_from(command, i + 1, FALSE)
    ELSE extract_from(command, i + 1, FALSE)

extract_commands(command) ==
    IF \E i \in DOMAIN command : command[i] = "'" THEN <<>>
    ELSE extract_from(command, 1, TRUE)

\* project_analyzer.is_command_allowed
is_command_allowed(cmd, project_commands) ==
    cmd \in BASE_COMMANDS \cup project_commands

\* security/validator.py: the commands with a registered validator
VALIDATORS == {"go"}

Allow == [decision |-> "allow", reason |-> "none"]
Block(reason) == [decision |-> "block", reason |-> reason]

\* lines 199-260: the allowlist and the validators, command by command
RECURSIVE check_commands(_, _, _, _)
check_commands(commands, i, project_commands, validator_rejects) ==
    IF i > Len(commands) THEN Allow
    ELSE IF ~is_command_allowed(commands[i], project_commands)
         THEN Block("not allowed")
    ELSE IF commands[i] \in VALIDATORS /\ validator_rejects
         THEN Block("validator")
    ELSE check_commands(commands, i + 1, project_commands, validator_rejects)

bash_security_hook(input_data) ==
    LET tool_input == input_data.tool_input
        command == IF tool_input.has_command THEN tool_input.command ELSE <<>>
        segments == split_command_segments(command)
        test_plan_env == _load_test_plan_from_env(input_data.test_plan_env)
        blocked_commands == IF test_plan_env # <<>> THEN test_plan_env
                            ELSE DEFAULT_BLOCKED_TEST_COMMANDS
        task_type == _resolve_task_type(input_data.env_task_type,
                                        input_data.spec_task_type)
        commands == extract_commands(command)
    IN  IF input_data.tool_name # "Bash" THEN Allow
        ELSE IF input_data.manual_verification THEN Block("Manual verification mode")
        ELSE IF tool_input.kind = "None" THEN Block("tool_input is None")
        ELSE IF tool_input.kind # "dict" THEN Block("tool_input must be dict")
        ELSE IF command = <<>> THEN Allow
        ELSE IF /\ input_data.block_test_commands
                /\ \E k \in DOMAIN segments :
                       _segment_matches_test_plan(segments[k], blocked_commands)
             THEN Block("Test commands are reserved for Post-Code Tests")
        ELSE IF /\ task_type # "code"
                /\ \E k \in DOMAIN segments :
                       _segment_matches_test_plan(segments[k], NON_CODE_BLOCKED_COMMANDS)
             THEN Block("Non-code task")
        ELSE IF commands = <<>> THEN Block("Could not parse command")
        ELSE check_commands(commands, 1, input_data.project_commands,
                            input_data.validator_rejects)

\* one evaluation of the hook
evaluate_hook ==
    /\ gate_input # NoGateInput
    /\ gate_decision = NoDecision
    /\ gate_decision' = bash_security_hook(gate_input)
    /\ UNCHANGED gate_input

(***************************************************************************)
(* SpecGate: one tool call put before the hook                             *)
(***************************************************************************)
ToolInputs ==
    [kind : {"None", "list"}, has_command : {FALSE}, command : {<<>>}]
    \cup [kind : {"dict"}, has_command : {FALSE}, command : {<<>>}]
    \cup [kind : {"dict"}, has_command : {TRUE}, command : Commands]

TestPlanEnvs ==
    { <<>>, << <<" ">> >>, << <<"go", " ", " ", "test", " ">>, <<" ">> >> }

TaskTypeSources == { <<"", "">>, <<"analysis", "">>, <<"", "analysis">> }

GateInputs ==
    { [tool_name |-> "Bash", manual_verification |-> FALSE, tool_input |-> ti,
       block_test_commands |-> bt, test_plan_env |-> tp,
       env_task_type |-> tt[1], spec_task_type |-> tt[2],
       project_commands |-> pc, validator_rejects |-> vr] :
         ti \in ToolInputs, bt \in BOOLEAN, tp \in TestPlanEnvs,
         tt \in TaskTypeSources, pc \in {{}, {"pytest"}}, vr \in BOOLEAN }
    \cup
    { [tool_name |-> tn, manual_verification |-> mv, tool_input |-> ti,
       block_test_commands |-> TRUE, test_plan_env |-> <<>>,
       env_task_type |-> "analysis", spec_task_type |-> "",
       project_commands |-> {}, validator_rejects |-> FALSE] :
         tn \in {"Bash", "Read"}, mv \in BOOLEAN,
         ti \in {t \in ToolInputs : Len(t.command) <= 1} }

InitGate ==
    /\ QAIdle /\ SessionIdle /\ PipelineIdle
    /\ gate_input \in GateInputs
    /\ gate_decision = NoDecision

NextGate ==
    /\ evaluate_hook
    /\ UNCHANGED <<qa_vars, session_vars, pipeline_vars>>

SpecGate == InitGate /\ [][NextGate]_vars


(***************************************************************************)
(* spec/pipeline/orchestrator.py: SpecOrchestrator.run                     *)
(*   One step of the model is one call of run_phase together with what     *)
(*   run does before the next call: the failure return, the call of        *)
(*   _store_phase_summary, and after complexity_assessment the choice of   *)
(*   the pipeline.                                                         *)
(***************************************************************************)
MaxPhases == 2

\* the six phases run calls one after the other (lines 438-527)
STATIC_PHASES ==
    <<"discovery", "requirements", "env_reality_check", "preflight",
      "senior_review", "complexity_assessment">>

\* the keys of all_phases (lines 538-547)
ALL_PHASES ==
    {"historical_context", "research", "context", "spec_writing",
     "self_critique", "planning", "validation", "quick_spec"}

\* the names run removes from phases_to_run() (lines 569-580)
ALREADY_RUN == {"discovery", "requirements", "preflight", "senior_review"}

\* noncode_phases of _run_noncode_pipeline (line 320)
NONCODE_PHASES == <<"quick_spec", "validation">>

\* the names a phases_to_run() list is drawn from: two phases of all_phases,
\* one that run has already run, one that all_phases does not hold
PhaseNames == {"context", "planning", "discovery", "env_reality_check"}
PhaseLists == UNION {[1..n -> PhaseNames] : n \in 0..MaxPhases}

\* what a call of _store_phase_summary can meet: a summary is produced, the
\* phase has no output, the summarizer exceeds its 60 s or raises
SummaryOutcomes == {"stored", "no_output", "timeout"}

\* _store_phase_summary: self._phase_summaries after the call
_store_phase_summary(phase_name, outcome) ==
    IF outcome = "stored" THEN _phase_summaries \cup {phase_name}
    ELSE _phase_summaries

\* the for loop of lines 594-629 running every name of phases_to_run()
phases_to_run_all(all_phases_to_run) == all_phases_to_run

\* the phases the for loop of lines 594-629 runs: phases_to_run() less the
\* removed names, less the names all_phases does not hold (skipped)
phases_to_run(all_phases_to_run) ==
    SelectSeq(all_phases_to_run,
              LAMBDA p : p \notin ALREADY_RUN /\ p \in ALL_PHASES)

PhaseResult(name, success) == [phase |-> name, success |-> success]

\* lines 438-564: the next of the six fixed phases
run_static_phase(success, outcome) ==
    LET name == STATIC_PHASES[Len(phase_results) + 1]
        last_one == Len(phase_results) + 1 = Len(STATIC_PHASES)
        dynamic == phases_to_run(assessment_phases)
    IN
    /\ orch_pc = "static"
    \* _phase_complexity_assessment_with_requirements always returns success
    /\ name = "complexity_assessment" => success
    /\ phase_results' = Append(phase_results, PhaseResult(name, success))
    /\ _phase_summaries' =
           IF success /\ name # "complexity_assessment"
           THEN _store_phase_summary(name, outcome) ELSE _phase_summaries
    /\ IF ~success
       THEN orch_pc' = "done" /\ orch_return' = "false" /\ todo' = todo
       ELSE IF ~last_one
       THEN UNCHANGED <<orch_pc, orch_return, todo>>
       ELSE IF orch_task_type # "code"
       THEN orch_pc' = "noncode" /\ todo' = NONCODE_PHASES /\ orch_return' = orch_return
       ELSE /\ todo' = dynamic
            /\ orch_pc' = IF dynamic = <<>> THEN "review" ELSE "dynamic"
            /\ orch_return' = orch_return
    /\ UNCHANGED <<orch_task_type, assessment_phases, proofs_json, proof_write>>

\* lines 594-629: one round of the loop over the phases of the assessment
run_dynamic_phase(success, outcome) ==
    LET name == Head(todo) IN
    /\ orch_pc = "dynamic"
    /\ phase_results' = Append(phase_results, PhaseResult(name, success))
    /\ _phase_summaries' = IF success THEN _store_phase_summary(name, outcome)
                           ELSE _phase_summaries
    /\ IF ~success
       THEN orch_pc' = "done" /\ orch_return' = "false" /\ todo' = todo
       ELSE /\ todo' = Tail(todo)
            /\ orch_pc' = IF Tail(todo) = <<>> THEN "review" ELSE "dynamic"
            /\ orch_return' = orch_return
    /\ UNCHANGED <<orch_task_type, assessment_phases, proofs_json, proof_write>>

\* _run_noncode_pipeline, lines 326-348: one round of its loop
run_noncode_phase(success, outcome) ==
    LET name == Head(todo) IN
    /\ orch_pc = "noncode"
    /\ phase_results' = Append(phase_results, PhaseResult(name, success))
    /\ _phase_summaries' = IF success THEN _store_phase_summary(name, outcome)
                           ELSE _phase_summaries
    /\ IF ~success
       THEN orch_pc' = "done" /\ orch_return' = "false" /\ todo' = todo
       ELSE /\ todo' = Tail(todo)
            /\ orch_pc' = IF Tail(todo) = <<>> THEN "proof" ELSE "noncode"
            /\ orch_return' = orch_return
    /\ UNCHANGED <<orch_task_type, assessment_phases, proofs_json, proof_write>>

\* ensure_noncode_proof that writes nothing
ensure_noncode_proof_never(task_type, proofs_file) == proofs_file

\* qa/proof_writer.py ensure_noncode_proof: proofs.json after the call
ensure_noncode_proof(task_type, proofs_file) ==
    IF task_type = "code" THEN proofs_file
    ELSE IF proofs_file # "none" THEN proofs_file
    ELSE "default"

\* _run_noncode_pipeline, lines 350-360: the proof of a non-code task;
\* write_ok = FALSE is ensure_noncode_proof raising (logged, run goes on)
write_noncode_proof(write_ok) ==
    /\ orch_pc = "proof"
    /\ proofs_json' = IF write_ok THEN ensure_noncode_proof(orch_task_type, proofs_json)
                      ELSE proofs_json
    /\ proof_write' = IF write_ok THEN "ok" ELSE "raised"
    /\ orch_pc' = "review"
    /\ UNCHANGED <<orch_task_type, assessment_phases, todo, phase_results,
                   _phase_summaries, orch_return>>

\* _run_review_checkpoint: True if the review state is approved, False if
\* it is not or the user interrupts
review_checkpoint(approved) ==
    /\ orch_pc = "review"
    /\ orch_pc' = "done"
    /\ orch_return' = IF approved THEN "true" ELSE "false"
    /\ UNCHANGED <<orch_task_type, assessment_phases, todo, phase_results,
                   _phase_summaries, proofs_json, proof_write>>

InitOrch ==
    /\ orch_pc = "static"
    /\ orch_task_type \in TaskTypes
    /\ assessment_phases \in PhaseLists
    /\ todo = <<>> /\ phase_results = <<>> /\ _phase_summaries = {}
    /\ proofs_json \in {"none", "other"}
    /\ proof_write = "none"
    /\ orch_return = "none"
    /\ QAIdle /\ SessionIdle /\ GateIdle /\ DirsIdle /\ CacheIdle /\ ToolsIdle

NextOrch ==
    \/ /\ \E success \in BOOLEAN, outcome \in SummaryOutcomes :
            run_static_phase(success, outcome)
       /\ UNCHANGED <<qa_vars, session_vars, gate_vars, dir_vars, cache_vars, tool_vars>>
    \/ /\ \E success \in BOOLEAN, outcome \in SummaryOutcomes :
            run_dynamic_phase(success, outcome)
       /\ UNCHANGED <<qa_vars, session_vars, gate_vars, dir_vars, cache_vars, tool_vars>>
    \/ /\ \E success \in BOOLEAN, outcome \in SummaryOutcomes :
            run_noncode_phase(success, outcome)
       /\ UNCHANGED <<qa_vars, session_vars, gate_vars, dir_vars, cache_vars, tool_vars>>
    \/ /\ \E write_ok \in BOOLEAN : write_noncode_proof(write_ok)
       /\ UNCHANGED <<qa_vars, session_vars, gate_vars, dir_vars, cache_vars, tool_vars>>
    \/ /\ \E approved \in BOOLEAN : review_checkpoint(approved)
       /\ UNCHANGED <<qa_vars, session_vars, gate_vars, dir_vars, cache_vars, tool_vars>>

SpecOrch == InitOrch /\ [][NextOrch]_vars


(***************************************************************************)
(* spec/pipeline/orchestrator.py: SpecOrchestrator.__init__, lines 107-129 *)
(*   Workers that construct an orchestrator with neither spec_dir nor      *)
(*   spec_name, in one project. SpecNumberLock, create_spec_dir and        *)
(*   cleanup_orphaned_pending_folders are not in the source tree: the lock *)
(*   is exclusive and create_spec_dir takes the number after the highest   *)
(*   existing one, as the specification of the numbering says; the cleanup *)
(*   removes no directory a worker has just made.                          *)
(***************************************************************************)
NumWorkers == 2
MaxExisting == 3

Workers == 1..NumWorkers

Max(S) == IF S = {} THEN 0 ELSE CHOOSE n \in S : \A m \in S : m <= n

\* get_specs_dir and cleanup_orphaned_pending_folders (lines 107-111)
init_cleanup(w) ==
    /\ worker_pc[w] = "start"
    /\ worker_pc' = [worker_pc EXCEPT ![w] = "cleaned"]
    /\ UNCHANGED <<spec_number, lock_holder, spec_dirs, initial_dirs, mkdirs>>

\* with SpecNumberLock(self.project_dir) as lock: the lock is taken (line 126)
lock_enter(w) ==
    /\ worker_pc[w] = "cleaned"
    /\ lock_holder = 0
    /\ lock_holder' = w
    /\ worker_pc' = [worker_pc EXCEPT ![w] = "locked"]
    /\ UNCHANGED <<spec_number, spec_dirs, initial_dirs, mkdirs>>

\* create_spec_dir(self.specs_dir, lock): the next number (line 127)
create_spec_dir(w) ==
    /\ worker_pc[w] = "locked"
    /\ spec_number' = [spec_number EXCEPT ![w] = Max(spec_dirs) + 1]
    /\ worker_pc' = [worker_pc EXCEPT ![w] = "named"]
    /\ UNCHANGED <<lock_holder, spec_dirs, initial_dirs, mkdirs>>

\* self.spec_dir.mkdir(parents=True, exist_ok=True) (line 129)
mkdir(w) ==
    /\ worker_pc[w] = "named"
    /\ spec_dirs' = spec_dirs \cup {spec_number[w]}
    /\ mkdirs' = mkdirs \cup {<<w, spec_number[w]>>}
    /\ worker_pc' = [worker_pc EXCEPT ![w] = IF lock_holder = w THEN "made" ELSE "done"]
    /\ UNCHANGED <<spec_number, lock_holder, initial_dirs>>

\* a with block that ends once the number is known, before the mkdir
exits_before_mkdir(w) == worker_pc[w] \in {"named", "made"}

\* the with block of lines 126-129 ends after the mkdir
exits_after_mkdir(w) == worker_pc[w] = "made"

\* SpecNumberLock.__exit__: the lock is released
lock_exit(w) ==
    /\ lock_holder = w
    /\ exits_after_mkdir(w)
    /\ lock_holder' = 0
    /\ worker_pc' = [worker_pc EXCEPT ![w] = IF worker_pc[w] = "made" THEN "done"
                                             ELSE worker_pc[w]]
    /\ UNCHANGED <<spec_number, spec_dirs, initial_dirs, mkdirs>>

InitDirs ==
    /\ worker_pc = [w \in Workers |-> "start"]
    /\ spec_number = [w \in Workers |-> 0]
    /\ lock_holder = 0
    /\ spec_dirs \in SUBSET (1..MaxExisting)
    /\ initial_dirs = spec_dirs
    /\ mkdirs = {}
    /\ QAIdle /\ SessionIdle /\ GateIdle /\ OrchIdle /\ CacheIdle /\ ToolsIdle

NextDirs ==
    \/ /\ \E w \in Workers : init_cleanup(w)
       /\ UNCHANGED <<qa_vars, session_vars, gate_vars, orch_vars, cache_vars, tool_vars>>
    \/ /\ \E w \in Workers : lock_enter(w)
       /\ UNCHANGED <<qa_vars, session_vars, gate_vars, orch_vars, cache_vars, tool_vars>>
    \/ /\ \E w \in Workers : create_spec_dir(w)
       /\ UNCHANGED <<qa_vars, session_vars, gate_vars, orch_vars, cache_vars, tool_vars>>
    \/ /\ \E w \in Workers : mkdir(w)
       /\ UNCHANGED <<qa_vars, session_vars, gate_vars, orch_vars, cache_vars, tool_vars>>
    \/ /\ \E w \in Workers : lock_exit(w)
       /\ UNCHANGED <<qa_vars, session_vars, gate_vars, orch_vars, cache_vars, tool_vars>>

SpecDirs == InitDirs /\ [][NextDirs]_vars

(***************************************************************************)
(* core/client.py: the project index cache, lines 30-100                   *)
(*   One project key. An object of the heap is the pair (index,            *)
(*   capabilities) a call loads or copies; a caller that holds an object   *)
(*   may change either part of it.                                         *)
(***************************************************************************)
NumCallers == 2
MaxObjects == 3
MaxTicks == 1
_CACHE_TTL_SECONDS == 300

Callers == 1..NumCallers

\* what load_project_index and detect_project_capabilities produce
Loaded == [index |-> "loaded", capabilities |-> "loaded"]

\* the entry of the key is there and younger than the TTL (lines 55-57, 87-89)
cache_valid(now) ==
    /\ _PROJECT_INDEX_CACHE.present
    /\ now - _PROJECT_INDEX_CACHE.time < _CACHE_TTL_SECONDS

\* copy.deepcopy: a new object with the content of the copied one
deepcopy(h, id) == Append(h, h[id])

\* lines 52-69: the first look at the cache, under _CACHE_LOCK
check_cache(c) ==
    /\ caller_pc[c] = "idle"
    /\ IF cache_valid(clock)
       THEN /\ Len(heap) < MaxObjects
            /\ heap' = deepcopy(heap, _PROJECT_INDEX_CACHE.obj)
            /\ returned' = [returned EXCEPT ![c] = Len(heap) + 1]
            /\ received' = [received EXCEPT ![c] = heap[_PROJECT_INDEX_CACHE.obj]]
            /\ caller_pc' = [caller_pc EXCEPT ![c] = "returned"]
       ELSE /\ caller_pc' = [caller_pc EXCEPT ![c] = "load"]
            /\ UNCHANGED <<heap, returned, received>>
    /\ UNCHANGED <<_PROJECT_INDEX_CACHE, loaded, clock>>

\* lines 71-75: load_project_index and detect_project_capabilities, no lock held
load_project_index(c) ==
    /\ caller_pc[c] = "load"
    /\ Len(heap) < MaxObjects
    /\ heap' = Append(heap, Loaded)
    /\ loaded' = [loaded EXCEPT ![c] = Len(heap) + 1]
    /\ caller_pc' = [caller_pc EXCEPT ![c] = "store"]
    /\ UNCHANGED <<_PROJECT_INDEX_CACHE, returned, received, clock>>

\* line 100: return project_index, project_capabilities: the loaded objects
return_loaded(h, id) == <<h, id>>

\* lines 85-100: the second look under _CACHE_LOCK, the store and the return
store_cache(c) ==
    /\ caller_pc[c] = "store"
    /\ IF cache_valid(clock)
       THEN /\ Len(heap) < MaxObjects
            /\ heap' = deepcopy(heap, _PROJECT_INDEX_CACHE.obj)
            /\ returned' = [returned EXCEPT ![c] = Len(heap) + 1]
            /\ received' = [received EXCEPT ![c] = heap[_PROJECT_INDEX_CACHE.obj]]
            /\ UNCHANGED _PROJECT_INDEX_CACHE
       ELSE LET ret == return_loaded(heap, loaded[c]) IN
            /\ Len(ret[1]) <= MaxObjects
            /\ _PROJECT_INDEX_CACHE' =
                   [present |-> TRUE, obj |-> loaded[c], time |-> clock]
            /\ heap' = ret[1]
            /\ returned' = [returned EXCEPT ![c] = ret[2]]
            /\ received' = [received EXCEPT ![c] = heap[loaded[c]]]
    /\ caller_pc' = [caller_pc EXCEPT ![c] = "returned"]
    /\ UNCHANGED <<loaded, clock>>

\* a caller changes the index or the capability map it was handed
caller_mutates(c, part) ==
    /\ caller_pc[c] = "returned"
    /\ heap[returned[c]][part] # "mutated"
    /\ heap' = [heap EXCEPT ![returned[c]][part] = "mutated"]
    /\ UNCHANGED <<_PROJECT_INDEX_CACHE, caller_pc, loaded, returned, received, clock>>

\* a caller creates its next client: _get_cached_project_data is called again
caller_calls_again(c) ==
    /\ caller_pc[c] = "returned"
    /\ Len(heap) < MaxObjects
    /\ caller_pc' = [caller_pc EXCEPT ![c] = "idle"]
    /\ loaded' = [loaded EXCEPT ![c] = 0]
    /\ returned' = [returned EXCEPT ![c] = 0]
    /\ received' = [received EXCEPT ![c] = Loaded]
    /\ UNCHANGED <<_PROJECT_INDEX_CACHE, heap, clock>>

\* time passes: one TTL
time_passes ==
    /\ clock < MaxTicks * _CACHE_TTL_SECONDS
    /\ clock' = clock + _CACHE_TTL_SECONDS
    /\ UNCHANGED <<_PROJECT_INDEX_CACHE, heap, caller_pc, loaded, returned, received>>

InitCache ==
    /\ _PROJECT_INDEX_CACHE = NoEntry
    /\ heap = <<>>
    /\ caller_pc = [c \in Callers |-> "idle"]
    /\ loaded = [c \in Callers |-> 0]
    /\ returned = [c \in Callers |-> 0]
    /\ received = [c \in Callers |-> Loaded]
    /\ clock = 0
    /\ QAIdle /\ SessionIdle /\ GateIdle /\ OrchIdle /\ DirsIdle /\ ToolsIdle

NextCache ==
    \/ /\ \E c \in Callers : check_cache(c)
       /\ UNCHANGED <<qa_vars, session_vars, gate_vars, orch_vars, dir_vars, tool_vars>>
    \/ /\ \E c \in Callers : load_project_index(c)
       /\ UNCHANGED <<qa_vars, session_vars, gate_vars, orch_vars, dir_vars, tool_vars>>
    \/ /\ \E c \in Callers : store_cache(c)
       /\ UNCHANGED <<qa_vars, session_vars, gate_vars, orch_vars, dir_vars, tool_vars>>
    \/ /\ \E c \in Callers, part \in {"index", "capabilities"} : caller_mutates(c, part)
       /\ UNCHANGED <<qa_vars, session_vars, gate_vars, orch_vars, dir_vars, tool_vars>>
    \/ /\ \E c \in Callers : caller_calls_again(c)
       /\ UNCHANGED <<qa_vars, session_vars, gate_vars, orch_vars, dir_vars, tool_vars>>
    \/ /\ time_passes
       /\ UNCHANGED <<qa_vars, session_vars, gate_vars, orch_vars, dir_vars, tool_vars>>

SpecCache == InitCache /\ [][NextCache]_vars

(***************************************************************************)
(* SpecScoper: one run of the preflight scoper                             *)
(* (spec/pipeline/preflight_scoper.py).  A path is the sequence of its     *)
(* segments.                                                               *)
(***************************************************************************)
MaxFiles == 3

TASK_TYPE_VALUES == {"code", "analysis", "plan", "audit", "content"}

\* the keyword groups in the order the dictionary is walked
_TASK_TYPE_KEYWORDS == <<"analysis", "audit", "plan", "content">>

_RUNTIME_CONFIG_NAMES == {"pytest.ini", "pyproject.toml", "package.json", "dockerfile"}

SecurityFile == <<"apps", "backend", "security", "hooks.py">>
QAFile == <<"apps", "backend", "qa", "loop.py">>
AgentsFile == <<"apps", "backend", "agents", "coder.py">>
PipelineFile == <<"apps", "backend", "spec", "pipeline", "models.py">>
PromptFile == <<"apps", "backend", "prompts", "coder.md">>
ReadmeFile == <<"README.md">>
PackageFile == <<"package.json">>
FrontendFile == <<"apps", "frontend", "src", "App.tsx">>
GlobPath == <<"apps", "backend", "*">>

Paths ==
    {SecurityFile, QAFile, AgentsFile, PipelineFile, PromptFile, ReadmeFile,
     PackageFile, FrontendFile, GlobPath}

FileLists == UNION {[1..n -> Paths] : n \in 0..MaxFiles}

\* the file names of Paths that end in .md, and those that hold a glob token
MarkdownNames == {"README.md", "coder.md"}
GlobNames == {"*"}

\* str.startswith(prefix + "/")
under(path, prefix) ==
    Len(path) > Len(prefix) /\ SubSeq(path, 1, Len(prefix)) = prefix

\* (segs + "/") in str
contains(path, segs) ==
    \E i \in 1..Len(path) :
        /\ i + Len(segs) - 1 < Len(path)
        /\ SubSeq(path, i, i + Len(segs) - 1) = segs

file_name(path) == path[Len(path)]

_infer_task_type(description, workflow) ==
    IF workflow \in {"docs", "documentation"} THEN "content"
    ELSE IF workflow \in {"audit", "analysis"} THEN "analysis"
    ELSE IF workflow \in {"plan", "planning"} THEN "plan"
    ELSE IF \E i \in 1..Len(_TASK_TYPE_KEYWORDS) : _TASK_TYPE_KEYWORDS[i] \in description
         THEN LET first == CHOOSE i \in 1..Len(_TASK_TYPE_KEYWORDS) :
                               /\ _TASK_TYPE_KEYWORDS[i] \in description
                               /\ \A j \in 1..(i - 1) :
                                      _TASK_TYPE_KEYWORDS[j] \notin description
              IN _TASK_TYPE_KEYWORDS[first]
         ELSE "code"

_is_concrete_file(path) == path # <<>> /\ file_name(path) \notin GlobNames

_is_prompt_runtime(path) ==
    \/ under(path, <<"apps", "backend", "prompts">>)
    \/ under(path, <<"apps", "backend", "prompts_pkg">>)

_is_doc_file(path) ==
    \/ under(path, <<"new-plans">>)
    \/ file_name(path) \in MarkdownNames /\ ~_is_prompt_runtime(path)

_is_runtime_config(path) ==
    \/ file_name(path) \in _RUNTIME_CONFIG_NAMES
    \/ contains(path, <<".github", "workflows">>)

_file_has_ipc_marker(marked, path) ==
    \/ contains(path, <<"apps", "frontend", "src", "main", "ipc-handlers">>)
    \/ path \in marked

_get_tests_for_file(path, has_ipc_change) ==
    IF _is_prompt_runtime(path) THEN <<"PYTEST_PIPELINE", "PYTEST_PROMPTS">>
    ELSE IF _is_doc_file(path) THEN <<>>
    ELSE IF _is_runtime_config(path) THEN <<"PYTEST_COLLECT">>
    ELSE IF under(path, <<"apps", "backend">>) THEN
        LET matches ==
                (IF contains(path, <<"apps", "backend", "security">>)
                    THEN <<"PYTEST_SECURITY">> ELSE <<>>)
                \o (IF contains(path, <<"apps", "backend", "spec", "pipeline">>)
                    THEN <<"PYTEST_PIPELINE", "PYTEST_ROUTING">> ELSE <<>>)
                \o (IF contains(path, <<"apps", "backend", "qa">>)
                    THEN <<"PYTEST_PROOF_GATE">> ELSE <<>>)
                \o (IF contains(path, <<"apps", "backend", "ipc">>)
                    THEN <<"PYTEST_PIPELINE", "NPM_TEST">> ELSE <<>>)
                \o (IF contains(path, <<"apps", "backend", "agents">>)
                    THEN <<"PYTEST_PIPELINE">> ELSE <<>>)
                \o (IF contains(path, <<"apps", "backend", "prompts_pkg">>)
                    THEN <<"PYTEST_PIPELINE">> ELSE <<>>)
        IN IF matches # <<>> THEN matches ELSE <<"PYTEST_PIPELINE">>
    ELSE IF under(path, <<"apps", "frontend">>) THEN
        <<"NPM_TEST">> \o (IF has_ipc_change THEN <<"PYTEST_PIPELINE">> ELSE <<>>)
    ELSE IF under(path, <<"apps", "shared">>) THEN <<"NPM_TEST", "PYTEST_PIPELINE">>
    ELSE IF contains(path, <<"types">>) THEN <<"NPM_TEST", "PYTEST_PIPELINE">>
    ELSE <<>>

priorities ==
    <<"PYTEST_SECURITY", "PYTEST_PIPELINE", "PYTEST_PROOF_GATE", "NPM_TEST",
      "PYTEST_COLLECT">>

rank(alias) ==
    IF \E i \in 1..Len(priorities) : priorities[i] = alias
    THEN (CHOOSE i \in 1..Len(priorities) : priorities[i] = alias) - 1
    ELSE Len(priorities)

_apply_priority_filter(tests, max_count) ==
    LET indexed == [i \in 1..Len(tests) |-> i]
        sorted == SortSeq(indexed,
                          LAMBDA a, b : \/ rank(tests[a]) < rank(tests[b])
                                        \/ rank(tests[a]) = rank(tests[b]) /\ a < b)
        kept == IF Len(tests) < max_count THEN Len(tests) ELSE max_count
    IN [k \in 1..kept |-> tests[sorted[k]]]

_apply_smart_cap(tests, files, max_count) ==
    IF max_count <= 0 \/ Len(tests) <= max_count THEN tests
    ELSE IF files = <<>> THEN _apply_priority_filter(tests, max_count)
    ELSE
        LET is_direct(alias) ==
                alias \in {"PYTEST_SECURITY", "PYTEST_PROOF_GATE", "PYTEST_PIPELINE"}
            direct == SelectSeq(tests, is_direct)
            is_indirect(alias) == ~is_direct(alias)
            indirect == SelectSeq(tests, is_indirect)
            remaining == IF max_count - Len(direct) > 0
                         THEN max_count - Len(direct) ELSE 0
        IN direct \o (IF remaining > 0 /\ indirect # <<>>
                      THEN _apply_priority_filter(indirect, remaining)
                      ELSE <<>>)

\* tests extended by the aliases it does not hold yet, in order
RECURSIVE append_unseen(_, _)
append_unseen(tests, aliases) ==
    IF aliases = <<>> THEN tests
    ELSE append_unseen(
             IF \E i \in 1..Len(tests) : tests[i] = Head(aliases)
             THEN tests ELSE Append(tests, Head(aliases)),
             Tail(aliases))

RECURSIVE tests_for_files(_, _, _)
tests_for_files(tests, files, has_ipc_change) ==
    IF files = <<>> THEN tests
    ELSE tests_for_files(
             append_unseen(tests, _get_tests_for_file(Head(files), has_ipc_change)),
             Tail(files), has_ipc_change)

\* _determine_tests_to_run without the task type check
_determine_tests_to_run_any_type(type, files, marked) ==
    LET has_ipc_change == \E i \in 1..Len(files) : _file_has_ipc_marker(marked, files[i])
        tests == tests_for_files(<<>>, files, has_ipc_change)
    IN IF Len(tests) > 2 THEN _apply_smart_cap(tests, files, 2) ELSE tests

_determine_tests_to_run(type, files, marked) ==
    IF type # "code" THEN <<>>
    ELSE IF files = <<>> THEN <<>>
    ELSE
        LET has_ipc_change ==
                \E i \in 1..Len(files) : _file_has_ipc_marker(marked, files[i])
            tests == tests_for_files(<<>>, files, has_ipc_change)
        IN IF Len(tests) > 2 THEN _apply_smart_cap(tests, files, 2) ELSE tests

\* the files, their source, whether they were inferred, and the questions asked
_resolve_files_to_modify(type, explicit, candidates) ==
    IF explicit # <<>> THEN
        [files |-> explicit, source |-> "requirements.json", inferred |-> FALSE,
         questions |-> {}]
    ELSE IF type # "code" THEN
        [files |-> <<>>, source |-> "none", inferred |-> FALSE, questions |-> {}]
    ELSE
        LET concrete == SelectSeq(candidates, _is_concrete_file)
        IN IF 0 < Len(concrete) /\ Len(concrete) <= 2 THEN
               [files |-> concrete, source |-> "scope_contract", inferred |-> TRUE,
                questions |-> {"confirm_files"}]
           ELSE
               [files |-> <<>>, source |-> "missing", inferred |-> TRUE,
                questions |-> IF candidates # <<>> THEN {"files_too_general"}
                                                   ELSE {"which_files"}]

\* run_preflight_scoper: the intake written for the given requirements.json
\* and scope_contract.json
build_task_intake(description, workflow, from_requirements, from_contract, ipc) ==
    LET type == _infer_task_type(description, workflow)
        resolved == _resolve_files_to_modify(type, from_requirements, from_contract)
        tests_to_run == _determine_tests_to_run(type, resolved.files, ipc)
        asked == IF type = "code" /\ resolved.files = <<>>
                 THEN {"which_files"} ELSE {}
    IN [task_type |-> type,
        files_to_modify |-> resolved.files,
        files_to_modify_source |-> resolved.source,
        files_to_modify_inferred |-> resolved.inferred,
        tests_to_run |-> tests_to_run,
        clarifying_questions |-> resolved.questions \cup asked]

run_preflight_scoper ==
    /\ scoper_pc = "start"
    /\ task_intake' = build_task_intake(task_description, workflow_type,
                                        requirements_files, candidate_files, ipc_files)
    /\ scoper_pc' = "done"
    /\ UNCHANGED <<workflow_type, task_description, requirements_files,
                   candidate_files, ipc_files>>

InitScoper ==
    /\ scoper_pc = "start"
    /\ workflow_type \in {"", "docs", "analysis"}
    /\ task_description \in {{}, {"audit"}, {"plan", "content"}}
    /\ \E files \in FileLists, holder \in {"requirements.json", "scope_contract.json"} :
          /\ requirements_files = IF holder = "requirements.json" THEN files ELSE <<>>
          /\ candidate_files = IF holder = "scope_contract.json" THEN files ELSE <<>>
    /\ ipc_files \in {{}, {FrontendFile}}
    /\ task_intake = NoIntake
    /\ QAIdle /\ SessionIdle /\ GateIdle /\ OrchIdle /\ DirsIdle /\ CacheIdle
    /\ ScoperRestIdle

NextScoper ==
    /\ run_preflight_scoper
    /\ UNCHANGED <<qa_vars, session_vars, gate_vars, orch_vars, dir_vars, cache_vars,
                   scoper_rest>>

SpecScoper == InitScoper /\ [][NextScoper]_vars

(***************************************************************************)
(* SpecContract: one validation of scope_contract.json                     *)
(* (spec/validate_pkg/validators/scope_contract_validator.py,              *)
(*  spec/validate_pkg/scope_contract_rules.py).  A path is the sequence of *)
(* its segments; an absolute path starts with an empty segment.            *)
(***************************************************************************)
MaxPaths == 2

ScopePaths ==
    {<<"apps">>, <<"apps", "**">>, <<"apps", "secret", "**">>, <<"docs", "**">>,
     <<".auto-iflow", "**">>, <<"", "srv", "**">>}

PathLists == UNION {[1..n -> ScopePaths] : n \in 0..MaxPaths}

\* errors the validator raises on the fields other than the two path lists
FieldErrors == {{}, {"invalid_intent"}}

\* the empty string
EmptyPath == <<"">>

\* a trailing slash is dropped
_normalize_path(path) ==
    IF Len(path) > 1 /\ path[Len(path)] = "" THEN SubSeq(path, 1, Len(path) - 1)
    ELSE path

_strip_glob(path) ==
    LET cleaned == _normalize_path(path)
    IN IF Len(cleaned) > 1 /\ cleaned[Len(cleaned)] = "**"
       THEN SubSeq(cleaned, 1, Len(cleaned) - 1)
       ELSE cleaned

overlaps(allowed_base, forbidden_base) ==
    allowed_base = forbidden_base \/ under(allowed_base, forbidden_base)

validate_scope_rules(allowed, forbidden) ==
    LET forbidden_bases == [j \in 1..Len(forbidden) |-> _strip_glob(forbidden[j])]
    IN [errors |->
            (IF allowed = <<>> THEN {"allowed_empty"} ELSE {})
            \cup (IF \E i \in 1..Len(allowed) :
                        LET normalized == _normalize_path(allowed[i])
                        IN Len(normalized) > 1 /\ normalized[1] = ""
                  THEN {"allowed_absolute"} ELSE {})
            \cup (IF \E i \in 1..Len(allowed), j \in 1..Len(forbidden) :
                        /\ forbidden_bases[j] # EmptyPath
                        /\ overlaps(_strip_glob(allowed[i]), forbidden_bases[j])
                  THEN {"overlap"} ELSE {}),
        warnings |-> IF forbidden = <<>> THEN {"forbidden_empty"} ELSE {}]

NoValidation == [valid |-> FALSE, errors |-> {}, warnings |-> {}]

\* ScopeContractValidator.validate
validate ==
    /\ contract_pc = "start"
    /\ LET rules == validate_scope_rules(allowed_paths, forbidden_paths)
           errors == field_errors \cup rules.errors
       IN validation' = [valid |-> errors = {}, errors |-> errors,
                         warnings |-> rules.warnings]
    /\ contract_pc' = "done"
    /\ UNCHANGED <<allowed_paths, forbidden_paths, field_errors>>

InitContract ==
    /\ contract_pc = "start"
    /\ allowed_paths \in PathLists
    /\ forbidden_paths \in PathLists
    /\ field_errors \in FieldErrors
    /\ validation = NoValidation
    /\ QAIdle /\ SessionIdle /\ GateIdle /\ OrchIdle /\ DirsIdle /\ CacheIdle
    /\ ContractRestIdle

NextContract ==
    /\ validate
    /\ UNCHANGED <<qa_vars, session_vars, gate_vars, orch_vars, dir_vars, cache_vars,
                   contract_rest>>

SpecContract == InitContract /\ [][NextContract]_vars

(***************************************************************************)
(* SpecResolver: one call of resolve_model (core/model_resolver.py,        *)
(* core/model_registry.py).  A routing source holds at most one entry in   *)
(* each of advancedRoles, features and phases: the one of role RoleKey of  *)
(* feature FeatureKey, the one of FeatureKey and the one of PhaseKey.      *)
(***************************************************************************)
MaxEntries == 2

\* Python's None, for a model name, a thinking level, a phase, feature or role
None == "None"

\* the thinking budget None
NoBudget == -1

THINKING_PARAMS ==
    [none |-> NoBudget, low |-> 1024, medium |-> 4096, high |-> 16384,
     ultrathink |-> 65536]

\* models.json: the registered models, in order
Registry ==
    <<[id |-> "glm-4.7", aliases |-> {}, supportsThinking |-> TRUE,
       recommendedFor |-> {"planning"}],
      [id |-> "deepseek-v3.2", aliases |-> {"deepseek"}, supportsThinking |-> FALSE,
       recommendedFor |-> {"spec"}]>>

PhaseKey == "spec"
FeatureKey == "github"
RoleKey == "batch"

SourceNames == <<"task_metadata", "project_env", "app_settings">>
Sections == {"advancedRoles", "features", "phases"}
Slots == {SourceNames[i] : i \in 1..Len(SourceNames)} \X Sections

\* an entry of a routing section; NoChoice where the section has no entry
NoChoice == [present |-> FALSE, model |-> None, thinkingLevel |-> None]
Choices ==
    [present : {TRUE}, model : {None, "glm-4.7", "deepseek"},
     thinkingLevel : {None, "high"}]

\* the phase, feature and role of the caller
Contexts ==
    {[phase |-> PhaseKey, feature |-> None, role |-> None],
     [phase |-> PhaseKey, feature |-> FeatureKey, role |-> None],
     [phase |-> PhaseKey, feature |-> FeatureKey, role |-> RoleKey],
     [phase |-> None, feature |-> FeatureKey, role |-> RoleKey]}

_normalize_phase(phase) == IF phase = "qa" THEN "validation" ELSE phase

\* alias_map.get(model, model)
resolve_model_id(name) ==
    IF \E i \in 1..Len(Registry) : name \in Registry[i].aliases
    THEN Registry[CHOOSE i \in 1..Len(Registry) : name \in Registry[i].aliases].id
    ELSE name

\* get_model_info(model_id).get("supportsThinking", True)
supports_thinking(model_id) ==
    IF \E i \in 1..Len(Registry) : Registry[i].id = model_id
    THEN Registry[CHOOSE i \in 1..Len(Registry) : Registry[i].id = model_id].supportsThinking
    ELSE TRUE

_select_choice(source, phase, feature, role) ==
    IF /\ role # None /\ feature # None
       /\ role = RoleKey /\ feature = FeatureKey
       /\ source["advancedRoles"].present
    THEN source["advancedRoles"]
    ELSE IF feature # None /\ feature = FeatureKey /\ source["features"].present
    THEN source["features"]
    ELSE IF phase # None /\ phase = PhaseKey /\ source["phases"].present
    THEN source["phases"]
    ELSE NoChoice

\* the model and the thinking level after the sources from index i on, given
\* what the earlier sources set
RECURSIVE walk_sources(_, _, _, _, _, _, _)
walk_sources(sources, i, phase, feature, role, model_value, thinking_level) ==
    IF i > Len(sources) \/ (model_value # None /\ thinking_level # None)
    THEN [model |-> model_value, thinkingLevel |-> thinking_level]
    ELSE LET choice == _select_choice(sources[i], phase, feature, role)
         IN IF ~choice.present
            THEN walk_sources(sources, i + 1, phase, feature, role,
                              model_value, thinking_level)
            ELSE walk_sources(
                     sources, i + 1, phase, feature, role,
                     IF model_value = None THEN choice.model ELSE model_value,
                     IF thinking_level = None THEN choice.thinkingLevel
                                              ELSE thinking_level)

_resolve_from_sources(sources, phase, feature, role) ==
    walk_sources(sources, 1, phase, feature, role, None, None)

_get_recommended_model(phase, feature) ==
    LET recommends(i) ==
            \/ phase # None /\ phase \in Registry[i].recommendedFor
            \/ feature # None /\ feature \in Registry[i].recommendedFor
    IN IF \E i \in 1..Len(Registry) : recommends(i)
       THEN Registry[CHOOSE i \in 1..Len(Registry) :
                         recommends(i) /\ \A j \in 1..(i - 1) : ~recommends(j)].id
       ELSE Registry[1].id

\* the thinking budget without the supportsThinking test
_get_thinking_budget_any_model(thinking_level, model_id) ==
    LET level == IF thinking_level \in DOMAIN THINKING_PARAMS
                 THEN thinking_level ELSE "medium"
    IN [level |-> level, budget |-> THINKING_PARAMS[level]]

_get_thinking_budget(thinking_level, model_id) ==
    IF ~supports_thinking(model_id) THEN [level |-> "none", budget |-> NoBudget]
    ELSE LET level == IF thinking_level \in DOMAIN THINKING_PARAMS
                      THEN thinking_level ELSE "medium"
         IN [level |-> level, budget |-> THINKING_PARAMS[level]]

NoResolution == [model_id |-> None, level |-> None, budget |-> NoBudget]

\* sources = [task_routing, project_routing, app_routing]
sources ==
    [i \in 1..Len(SourceNames) |-> [sec \in Sections |-> routing[<<SourceNames[i], sec>>]]]

resolve_model ==
    /\ resolver_pc = "start"
    /\ LET phase == _normalize_phase(context.phase)
           found == _resolve_from_sources(sources, phase, context.feature, context.role)
           with_cli_model == IF cli_model # None THEN cli_model ELSE found.model
           with_cli_thinking == IF cli_thinking # None THEN cli_thinking
                                                       ELSE found.thinkingLevel
           model_value == IF with_cli_model = None
                          THEN _get_recommended_model(phase, context.feature)
                          ELSE with_cli_model
           thinking_level == IF with_cli_thinking = None THEN "medium"
                                                         ELSE with_cli_thinking
           model_id == resolve_model_id(model_value)
           thinking == _get_thinking_budget(thinking_level, model_id)
       IN resolution' = [model_id |-> model_id, level |-> thinking.level,
                         budget |-> thinking.budget]
    /\ resolver_pc' = "done"
    /\ UNCHANGED <<context, routing, cli_model, cli_thinking>>

InitResolver ==
    /\ resolver_pc = "start"
    /\ context \in Contexts
    /\ \E filled \in SUBSET Slots :
          /\ Cardinality(filled) <= MaxEntries
          /\ \E entries \in [filled -> Choices] :
                routing = [s \in Slots |-> IF s \in filled THEN entries[s] ELSE NoChoice]
    /\ cli_model \in {None, "kimi-k2-0905"}
    /\ cli_thinking \in {None, "low"}
    /\ resolution = NoResolution
    /\ QAIdle /\ SessionIdle /\ GateIdle /\ OrchIdle /\ DirsIdle /\ CacheIdle
    /\ ResolverRestIdle

NextResolver ==
    /\ resolve_model
    /\ UNCHANGED <<qa_vars, session_vars, gate_vars, orch_vars, dir_vars, cache_vars,
                   resolver_rest>>

SpecResolver == InitResolver /\ [][NextResolver]_vars

(***************************************************************************)
(* SpecProofGate: one call of validate_proof_gate on a spec directory      *)
(* (qa/proof_gate.py), over the variables of the spec directory.           *)
(***************************************************************************)
MaxMapLen == 2

\* the entries _build_acceptance_map writes: a criterion that is not blank,
\* and the single output file or no file
MapEntries == [criterion : Criteria, file : {"a.py", ""}]
GateAcceptanceMaps == UNION {[1..n -> MapEntries] : n \in 0..MaxMapLen}

\* the entries proofs.json can hold
ProofEntries == [criterion : Criteria, file : {"a.py", "b.py", ""}]

proof_gate_call ==
    /\ last.op = "init"
    /\ last' = [NoLast EXCEPT
                  !.op = "proof_gate",
                  !.result = IF validate_proof_gate(intake_task_type, acceptance_map, proofs)
                             THEN "true" ELSE "false"]
    /\ UNCHANGED <<intake_task_type, plan_task_type, subtasks, plan_status, planStatus,
                   qa_signoff, plan_post_code, report, test_plan, head,
                   acceptance_map, proofs, session_subtask>>

\* one call of append_acceptance_proofs; readable is FALSE where the file of
\* an appended proof cannot be read, which leaves its snippet empty
proof_writer_call(readable) ==
    /\ last.op = "init"
    /\ proofs' = append_acceptance_proofs(acceptance_map, proofs)
    /\ last' = [NoLast EXCEPT
                  !.op = "append",
                  !.status = IF readable THEN "snippet" ELSE "empty snippet",
                  !.result = IF proofs' # proofs THEN "appended" ELSE "none"]
    /\ UNCHANGED <<intake_task_type, plan_task_type, subtasks, plan_status, planStatus,
                   qa_signoff, plan_post_code, report, test_plan, head,
                   acceptance_map, session_subtask>>

InitProofGate ==
    /\ intake_task_type \in TaskTypes
    /\ acceptance_map \in GateAcceptanceMaps
    /\ proofs \in SUBSET ProofEntries
    /\ plan_task_type = "absent"
    /\ plan_status = "in_progress" /\ planStatus = "in_progress"
    /\ qa_signoff = "none" /\ plan_post_code = "none" /\ report = NoReport
    /\ subtasks = <<>> /\ test_plan = <<>> /\ head = 0
    /\ session_subtask = -1 /\ last = NoLast
    /\ SessionIdle /\ GateIdle /\ PipelineIdle

NextProofGate ==
    \/ /\ proof_gate_call
       /\ UNCHANGED <<session_vars, gate_vars, pipeline_vars>>
    \/ /\ \E readable \in BOOLEAN : proof_writer_call(readable)
       /\ UNCHANGED <<session_vars, gate_vars, pipeline_vars>>

SpecProofGate == InitProofGate /\ [][NextProofGate]_vars

(***************************************************************************)
(* The QA validation loop (qa/criteria.py, qa/loop.py)                     *)
(*   The loop runs once the build is complete: a reviewer session writes   *)
(*   the sign-off with the number of the session, a fixer session answers  *)
(*   a rejection while should_run_fixes holds, and the loop leaves when    *)
(*   the sign-off is approved or no fix round is allowed.                  *)
(***************************************************************************)
\* qa/loop.py: the cap on QA sessions
MAX_QA_ITERATIONS == 3

\* get_qa_iteration_count: 0 when the plan holds no sign-off
get_qa_iteration_count == IF qa_signoff = "none" THEN 0 ELSE qa_session

\* should_run_fixes without the comparison with MAX_QA_ITERATIONS
should_run_fixes_uncapped == is_qa_rejected

\* should_run_fixes
should_run_fixes ==
    IF ~is_qa_rejected THEN FALSE
    ELSE IF get_qa_iteration_count >= MAX_QA_ITERATIONS THEN FALSE
    ELSE TRUE

\* a reviewer session: runs for a build awaiting validation, first or after
\* a fix round, and records its verdict and its number
qa_reviewer_session(verdict) ==
    /\ qa_loop = "running"
    /\ should_run_qa
    /\ qa_signoff \in {"none", "fixes_applied"}
    /\ qa_signoff' = verdict
    /\ qa_session' = get_qa_iteration_count + 1
    /\ last' = [NoLast EXCEPT !.op = "qa"]
    /\ UNCHANGED <<intake_task_type, plan_task_type, subtasks, plan_status, planStatus,
                   plan_post_code, report, test_plan, head, acceptance_map, proofs,
                   session_subtask, qa_loop, fix_rounds>>

\* a fixer session: runs while should_run_fixes holds and leaves the plan
\* ready for revalidation
qa_fixer_session ==
    /\ qa_loop = "running"
    /\ should_run_fixes
    /\ qa_signoff' = "fixes_applied"
    /\ fix_rounds' = fix_rounds + 1
    /\ last' = [NoLast EXCEPT !.op = "fix"]
    /\ UNCHANGED <<intake_task_type, plan_task_type, subtasks, plan_status, planStatus,
                   plan_post_code, report, test_plan, head, acceptance_map, proofs,
                   session_subtask, qa_loop, qa_session>>

\* the loop leaves: approved, or rejected with no fix round allowed
qa_loop_exit ==
    /\ qa_loop = "running"
    /\ \/ is_qa_approved
       \/ is_qa_rejected /\ ~should_run_fixes
    /\ qa_loop' = IF is_qa_approved THEN "approved" ELSE "halted"
    /\ UNCHANGED <<qa_vars, qa_session, fix_rounds>>

\* a build that is complete, validated for the first time or resumed after
\* a rejection an earlier run of the loop recorded
InitQALoop ==
    /\ intake_task_type = "code" /\ plan_task_type = "absent"
    /\ subtasks = [i \in SubtaskIds |-> "completed"]
    /\ \E st \in {"in_progress", "done"} : plan_status = st /\ planStatus = st
    /\ \/ qa_signoff = "none" /\ qa_session = 0
       \/ qa_signoff = "rejected" /\ qa_session \in 1..MAX_QA_ITERATIONS
    /\ plan_post_code = "none" /\ report = NoReport
    /\ test_plan \in {[i \in 1..n |-> i] : n \in 0..MaxPlanLen}
    /\ head = 0 /\ acceptance_map = <<>> /\ proofs = {}
    /\ session_subtask = -1 /\ last = NoLast
    /\ qa_loop = "running" /\ fix_rounds = 0
    /\ SessionIdle /\ GateIdle /\ OrchIdle /\ DirsIdle /\ CacheIdle /\ LoopRestIdle

NextQALoop ==
    \/ /\ \E verdict \in {"approved", "rejected"} : qa_reviewer_session(verdict)
       /\ UNCHANGED <<session_vars, gate_vars, orch_vars, dir_vars, cache_vars, loop_rest>>
    \/ /\ qa_fixer_session
       /\ UNCHANGED <<session_vars, gate_vars, orch_vars, dir_vars, cache_vars, loop_rest>>
    \/ /\ qa_loop_exit
       /\ UNCHANGED <<session_vars, gate_vars, orch_vars, dir_vars, cache_vars, loop_rest>>
    \/ /\ sync_plan_status_after_qa
       /\ UNCHANGED <<session_vars, gate_vars, pipeline_vars>>
    \/ /\ \E force \in BOOLEAN, results \in TestOutcomes :
             post_code_tests_cli(force, results)
       /\ UNCHANGED <<session_vars, gate_vars, pipeline_vars>>

SpecQALoop == InitQALoop /\ [][NextQALoop]_vars

(***************************************************************************)
(* Claims on the QA gate and the post-session processor (SpecQA)           *)
(***************************************************************************)

\* C1: for a code task, whenever the plan's status is human_review the
\* post-code test status is passed.
C1_HumanReviewNeedsPassedTests ==
    (intake_task_type = "code" /\ plan_status = "human_review")
        => post_code_tests_passed(report, plan_post_code)

\* C4: when post-session processing has handled the completed last subtask
\* of a code task and the post-code test run did not pass, the plan's status
\* is ai_review and its planStatus is review.
C4_PostSessionDowngradesPlan ==
    (/\ last.op = "post_session"
     /\ intake_task_type = "code"
     /\ last.tests \notin {"notrun", "passed"})
        => (plan_status = "ai_review" /\ planStatus = "review")

\* C5: after sync_plan_status_after_qa has run on a code task with QA
\* approved, the build complete and the post-code tests not passed, the
\* plan's status is ai_review and its planStatus is review (so the call did
\* not set human_review).
C5_SyncBlocksHumanReview ==
    (/\ last.op = "sync"
     /\ intake_task_type = "code"
     /\ qa_signoff = "approved"
     /\ is_build_complete(subtasks)
     /\ ~post_code_tests_passed(report, plan_post_code))
        => (plan_status = "ai_review" /\ planStatus = "review")

\* C5 witness: the sync has run on an approved, complete code task whose
\* tests ran and failed.
C5_Witness ==
    /\ last.op = "sync"
    /\ intake_task_type = "code"
    /\ qa_signoff = "approved"
    /\ is_build_complete(subtasks)
    /\ report.status = "failed"
    /\ plan_status = "ai_review"

\* C6: a QA-approved plan whose proof gate reports a missing proof is never
\* in human_review.
C6_HumanReviewNeedsProofGate ==
    (qa_signoff = "approved" /\ plan_status = "human_review")
        => validate_proof_gate(intake_task_type, acceptance_map, proofs)

(***************************************************************************)
(* Claims on the agent session (SpecSession)                               *)
(***************************************************************************)

\* C2: once the stream has been silent for longer than the idle timeout T,
\* after send or after a message, the session has returned
\* ("error", "No agent output for Ns; aborting session") where N is T cut to
\* whole seconds; it has returned neither complete nor continue.
C2_IdleTimeoutAborts ==
    stalled =>
        /\ spc = "done"
        /\ session_result.status = "error"
        /\ session_result.reason = "No agent output for {secs}s; aborting session"
        /\ session_result.secs * 10 <= idle_timeout
        /\ idle_timeout < (session_result.secs + 1) * 10

\* C2 as stated: the message names T itself.
C2_IdleTimeoutAborts_AsStated ==
    stalled =>
        /\ spc = "done"
        /\ session_result.status = "error"
        /\ session_result.reason = "No agent output for {secs}s; aborting session"
        /\ session_result.secs * 10 = idle_timeout

\* C2 witness: one assistant text came, then the stream was silent for
\* longer than a 2 s idle timeout and the session returned the error.
C2_Witness ==
    /\ stalled
    /\ idle_timeout = 20
    /\ msg_count = 1
    /\ response_text # <<>>
    /\ session_result.status = "error"
    /\ session_result.secs = 2

\* C3: when the stream ended by a Finish message or by exhaustion, the
\* session returned ("complete", transcript) if every subtask of the plan is
\* completed and ("continue", transcript) otherwise; a stream that delivered
\* only Finish gives the empty transcript.
C3_StreamEndResult ==
    (spc = "done" /\ stream_end \in {"finish", "exhausted"}) =>
        /\ session_result.status =
               IF \A i \in DOMAIN subtasks : subtasks[i] = "completed"
               THEN "complete" ELSE "continue"
        /\ session_result.text = response_text
        /\ (stream_end = "finish" /\ msg_count = 1) => session_result.text = <<>>

\* C3 witness: a stream with text ended by Finish on a plan whose subtasks
\* are all completed, and the session returned complete with the text.
C3_Witness ==
    /\ spc = "done"
    /\ stream_end = "finish"
    /\ \A i \in DOMAIN subtasks : subtasks[i] = "completed"
    /\ session_result.status = "complete"
    /\ session_result.text # <<>>

(***************************************************************************)
(* Claims on the command gate (SpecGate)                                   *)
(***************************************************************************)
\* the hook has decided on a Bash tool call
ShellCallDecided == gate_decision # NoDecision /\ gate_input.tool_name = "Bash"

\* the payload carries a command that is a non-empty string
WellFormedPayload ==
    /\ gate_input.tool_input.kind = "dict"
    /\ gate_input.tool_input.has_command
    /\ gate_input.tool_input.command # <<>>

\* the words of a string, in order
WordsOf(s) == SelectSeq(s, LAMBDA t : t # " ")

\* word sequence a is an initial part of word sequence b, or equal to it
WordPrefix(a, b) == Len(a) <= Len(b) /\ \A i \in 1..Len(a) : a[i] = b[i]

\* the commands of the active test plan: the plan of the environment if it
\* names a command, the default list otherwise
ActiveTestPlan ==
    LET named == {gate_input.test_plan_env[i] : i \in DOMAIN gate_input.test_plan_env}
        given == {e \in named : WordsOf(e) # <<>>}
    IN IF given # {} THEN given
       ELSE {DEFAULT_BLOCKED_TEST_COMMANDS[i] : i \in DOMAIN DEFAULT_BLOCKED_TEST_COMMANDS}

\* the segments of the command put before the hook
SegmentsOfCall ==
    LET segs == split_command_segments(gate_input.tool_input.command)
    IN {segs[i] : i \in DOMAIN segs}

\* C7: a Bash tool call is allowed only if its command parses into at least
\* one program name, every program name is in base_commands \cup
\* project_commands, and no registered validator rejects.
C7_AllowOnlyAllowlisted ==
    (ShellCallDecided /\ gate_decision.decision = "allow") =>
        LET commands == extract_commands(gate_input.tool_input.command)
        IN /\ gate_input.tool_input.kind = "dict"
           /\ commands # <<>>
           /\ \A i \in DOMAIN commands :
                  /\ commands[i] \in BASE_COMMANDS \cup gate_input.project_commands
                  /\ ~(commands[i] \in VALIDATORS /\ gate_input.validator_rejects)

\* a segment invokes a command of the non-code deny list: its words, after
\* the env wrapper words in front, begin with the words of a denied command
RECURSIVE DropWrappers(_)
DropWrappers(ws) ==
    IF ws # <<>> /\ Head(ws) = "env" THEN DropWrappers(Tail(ws)) ELSE ws

InvokesDenied(segment) ==
    \E i \in DOMAIN NON_CODE_BLOCKED_COMMANDS :
        WordPrefix(WordsOf(NON_CODE_BLOCKED_COMMANDS[i]), DropWrappers(WordsOf(segment)))

\* C8: when the task type is not code, every Bash command that invokes a
\* command of the non-code deny list is blocked, whatever the allowlist holds
\* and wherever in the command line the denied command stands.
C8_NonCodeDenyList ==
    (/\ ShellCallDecided
     /\ WellFormedPayload
     /\ _resolve_task_type(gate_input.env_task_type, gate_input.spec_task_type) # "code"
     /\ \E seg \in SegmentsOfCall : InvokesDenied(seg))
        => gate_decision.decision = "block"

\* C9: when BLOCK_TEST_COMMANDS is set, every Bash command is blocked that
\* has a segment whose words equal those of a command of the active test
\* plan, are an initial part of them, or begin with them.
C9_TestCommandsBlocked ==
    (/\ ShellCallDecided
     /\ WellFormedPayload
     /\ gate_input.block_test_commands
     /\ \E seg \in SegmentsOfCall, plan_cmd \in ActiveTestPlan :
            /\ WordsOf(seg) # <<>>
            /\ \/ WordPrefix(WordsOf(seg), WordsOf(plan_cmd))
               \/ WordPrefix(WordsOf(plan_cmd), WordsOf(seg)))
        => gate_decision.decision = "block"

\* C9 witness: with the block flag set and no manual verification, a command
\* whose second segment begins a command of the test plan that the
\* environment gives in irregular whitespace has been blocked for that reason.
C9_Witness ==
    /\ ShellCallDecided
    /\ ~gate_input.manual_verification
    /\ gate_input.block_test_commands
    /\ gate_input.test_plan_env # <<>>
    /\ gate_input.tool_input.command = <<"env", "&&", "go">>
    /\ gate_decision.reason = "Test commands are reserved for Post-Code Tests"

\* C10: every Bash tool call whose payload is malformed (payload missing,
\* not a mapping, command missing or empty) is blocked.
C10_MalformedPayloadBlocked ==
    (ShellCallDecided /\ ~WellFormedPayload) => gate_decision.decision = "block"

(***************************************************************************)
(* Claims on the tool events of a session (SpecSession)                    *)
(***************************************************************************)
\* no tool call later than the one a tool-end reports had started when the
\* tool-end at place j was logged
NoLaterCallStarted(j) ==
    \A k \in DOMAIN events :
        (k < j /\ events[k].ev = "tool_start") => events[k].call <= events[j].call

\* C11: every tool-end event that was logged before any later tool call
\* started comes after the tool-start event of the tool call whose result it
\* reports and names the tool of that call.
C11_ToolEndAfterStart ==
    \A j \in DOMAIN events :
        (events[j].ev = "tool_end" /\ NoLaterCallStarted(j)) =>
            /\ events[j].tool = tool_calls[events[j].call]
            /\ \E i \in DOMAIN events :
                   /\ i < j
                   /\ events[i].ev = "tool_start"
                   /\ events[i].call = events[j].call

\* C11 as stated: every tool-end event comes after the tool-start event of
\* the tool call whose result it reports and names the tool of that call.
C11_ToolEndAfterStart_AsStated ==
    \A j \in DOMAIN events :
        events[j].ev = "tool_end" =>
            /\ events[j].tool = tool_calls[events[j].call]
            /\ \E i \in DOMAIN events :
                   /\ i < j
                   /\ events[i].ev = "tool_start"
                   /\ events[i].call = events[j].call

\* C11 witness: a tool use was logged, a text came, and then the result of
\* that tool call was logged under the tool's name.
C11_Witness ==
    /\ Len(events) = 2
    /\ response_text # <<>>
    /\ events[1] = tool_start("Bash", 1)
    /\ events[2].ev = "tool_end"
    /\ events[2].tool = "Bash"
    /\ events[2].call = 1
    /\ msg_count = 3

\* the tool result recorded in blocked_result is the message handled last and
\* nothing has ended the stream since
BlockedResultJustHandled ==
    /\ blocked_result.at > 0
    /\ blocked_result.at = msg_count
    /\ stream_end = "open"
    /\ ~stalled

\* the last logged event is a blocked tool-end for the recorded tool result
LoggedAsBlocked ==
    /\ events # <<>>
    /\ events[Len(events)].ev = "tool_end"
    /\ events[Len(events)].success = FALSE
    /\ events[Len(events)].result = "BLOCKED"
    /\ events[Len(events)].call = blocked_result.msg.call

\* C12: a tool result that is an error with a scope phrase or the word
\* blocked is logged as a blocked tool-end when the session has a task logger
\* and the current_tool slot holds a tool; in every case the session goes on
\* consuming the stream, and when the stream then ends by Finish or by
\* exhaustion the session returns complete or continue.
C12_BlockedResultContinues ==
    /\ BlockedResultJustHandled =>
           /\ spc = "stream"
           /\ session_result = NoResult
           /\ (task_logger /\ blocked_result.slot # "") => LoggedAsBlocked
    /\ (blocked_result.at > 0 /\ spc = "done"
            /\ stream_end \in {"finish", "exhausted"}) =>
           session_result.status \in {"complete", "continue"}

\* C12 as stated: the blocked tool-end is logged for every such tool result.
C12_BlockedResultContinues_AsStated ==
    /\ BlockedResultJustHandled =>
           /\ spc = "stream"
           /\ session_result = NoResult
           /\ task_logger => LoggedAsBlocked
    /\ (blocked_result.at > 0 /\ spc = "done"
            /\ stream_end \in {"finish", "exhausted"}) =>
           session_result.status \in {"complete", "continue"}

\* C12 witness: the result of a Bash call was a scope-guard violation, it was
\* logged as a blocked tool-end, a further message was consumed and the
\* session returned continue.
C12_Witness ==
    /\ blocked_result.at = 2
    /\ blocked_result.msg.scope_keyword
    /\ events = <<tool_start("Bash", 1), tool_end("Bash", FALSE, "BLOCKED", 1)>>
    /\ msg_count = 3
    /\ spc = "done"
    /\ session_result.status = "continue"


(***************************************************************************)
(* Claims about the post-code test runner (SpecQA)                         *)
(***************************************************************************)
\* the step is a call of run_post_code_tests_if_needed: the CLI without
\* --force, or post-session processing past its guard
RunnerAsked ==
    \/ last'.op = "cli" /\ ~last'.force
    \/ last'.op = "post_session" /\ reaches_post_code_tests(session_subtask)

\* the step executed run_post_code_tests and wrote a report
RunnerTriggered == last'.tests # "notrun"

\* C13 (amended): a call of run_post_code_tests_if_needed runs the test plan
\* exactly when the task type is code and either no prior report exists, or
\* HEAD or the report's commit is unknown, or the report's commit differs
\* from HEAD; it never runs it for a non-code task.
C13_RunnerTrigger ==
    [][RunnerAsked =>
          (RunnerTriggered <=>
              /\ intake_task_type = "code"
              /\ \/ report.status = "none"
                 \/ head = NoCommit
                 \/ report.commit = NoCommit
                 \/ report.commit # head)]_vars

\* C13 as stated: the runner is triggered exactly when the task type is code
\* and either no prior report exists or the report's commit differs from HEAD.
C13_RunnerTrigger_AsStated ==
    [][RunnerAsked =>
          (RunnerTriggered <=>
              /\ intake_task_type = "code"
              /\ \/ report.status = "none"
                 \/ report.commit # head)]_vars

\* C13 witness: the CLI without --force found a report of the current HEAD
\* for a code task and ran nothing
C13_Witness ==
    /\ last.op = "cli" /\ ~last.force /\ last.tests = "notrun"
    /\ intake_task_type = "code"
    /\ report.status # "none" /\ head # NoCommit /\ report.commit = head

\* the stored report is one of the current HEAD
ReportOfHead == report.status # "none" /\ head # NoCommit /\ report.commit = head

\* C14: a call of run_post_code_tests_if_needed that finds a stored report
\* whose commit equals HEAD executes no test command, leaves the report as
\* it is and returns the stored report.
C14_RerunReturnsStoredReport ==
    [][(RunnerAsked /\ ReportOfHead) =>
          /\ ~RunnerTriggered
          /\ report' = report
          /\ last'.returned = report]_vars

\* the part of C14 the code keeps: no test command runs and the stored
\* report stays as it is
C14_RerunExecutesNothing ==
    [][(RunnerAsked /\ ReportOfHead) =>
          (~RunnerTriggered /\ report' = report)]_vars

\* the last operation executed run_post_code_tests and wrote the report
RunnerWroteReport == last.op \in {"cli", "post_session"} /\ last.tests # "notrun"

\* the commands of the last run that did not pass: failed or timed out
NotPassed == {i \in DOMAIN last.results : last.results[i] # "passed"}

\* C15 (amended): in every report written for a test plan that is not empty
\* the failed count is the number of commands that failed or timed out, and
\* the status is passed if and only if that count is zero; the report
\* written for an empty test plan has failed count zero and the status
\* failed for a code task, skipped otherwise.
C15_PassedIffNoFailure ==
    RunnerWroteReport =>
        IF test_plan # <<>>
        THEN /\ report.total = Len(test_plan)
             /\ report.failed = Cardinality(NotPassed)
             /\ report.status = "passed" <=> report.failed = 0
        ELSE /\ report.failed = 0
             /\ report.status = IF intake_task_type = "code" THEN "failed" ELSE "skipped"

\* C15 as stated: in every report the runner writes, the status is passed
\* if and only if the failed count is zero, a timed-out command being
\* counted as failed.
C15_PassedIffNoFailure_AsStated ==
    RunnerWroteReport =>
        /\ report.failed = Cardinality(NotPassed)
        /\ report.status = "passed" <=> report.failed = 0

\* C15 witness: a run whose only failure is a command that timed out wrote
\* a failed report
C15_Witness ==
    /\ RunnerWroteReport
    /\ \E i \in DOMAIN last.results : last.results[i] = "timed_out"
    /\ \A i \in DOMAIN last.results : last.results[i] # "failed"
    /\ report.status = "failed" /\ report.failed >= 1

(***************************************************************************)
(* Claims on the spec orchestrator (SpecOrch)                              *)
(***************************************************************************)
\* the names of the phases run so far, in order
PhasesRun == [i \in 1..Len(phase_results) |-> phase_results[i].phase]

SomePhaseFailed == \E i \in 1..Len(phase_results) : ~phase_results[i].success

\* run has reached the review checkpoint
ReviewEntered == orch_pc = "review" \/ (orch_pc = "done" /\ ~SomePhaseFailed)

\* the phases of the assessment that have not run yet and that run knows
NewKnownPhases ==
    SelectSeq(assessment_phases, LAMBDA p : p \in ALL_PHASES \ ALREADY_RUN)

\* the order of run: every phase but the last one run has succeeded, a
\* failed phase ends the run with failure, and the review checkpoint is
\* entered only after the whole list
RunsInOrder(phase_list) ==
    /\ WordPrefix(PhasesRun, phase_list)
    /\ \A i \in 1..Len(phase_results) : i < Len(phase_results) => phase_results[i].success
    /\ SomePhaseFailed => (orch_pc = "done" /\ orch_return = "false")
    /\ ReviewEntered => PhasesRun = phase_list

\* C16 (amended): the orchestrator runs the six fixed phases in order, then,
\* for a code task, the phases of phases_to_run() that are keys of
\* all_phases and are none of discovery, requirements, preflight and
\* senior_review, in list order (for any other task quick_spec and
\* validation), then the review checkpoint; a phase starts only after
\* every earlier phase succeeded, and after the first failed phase no later
\* phase runs and the run returns failure.
C16_PhaseOrder ==
    RunsInOrder(STATIC_PHASES \o (IF orch_task_type = "code" THEN NewKnownPhases
                                  ELSE NONCODE_PHASES))

\* C16 as stated: the six fixed phases, then the phases returned by
\* phases_to_run in list order, then the review checkpoint.
C16_PhaseOrder_AsStated == RunsInOrder(STATIC_PHASES \o assessment_phases)

\* C16 witness: a code task whose assessment lists a phase already run and a
\* new one has passed the review checkpoint
C16_Witness ==
    /\ orch_task_type = "code"
    /\ assessment_phases = <<"discovery", "planning">>
    /\ PhasesRun = STATIC_PHASES \o <<"planning">>
    /\ orch_pc = "done" /\ orch_return = "true"

\* C17 (amended): for a task whose type is not code, after
\* complexity_assessment the orchestrator runs only quick_spec and then
\* validation, then calls ensure_noncode_proof, and only then enters the
\* review checkpoint; unless that call failed, proofs.json then holds a
\* proof: the default proof if it held none before.
C17_NoncodePipeline ==
    orch_task_type # "code" =>
        /\ WordPrefix(PhasesRun, STATIC_PHASES \o NONCODE_PHASES)
        /\ orch_pc = "proof" => (PhasesRun = STATIC_PHASES \o NONCODE_PHASES
                                 /\ ~SomePhaseFailed)
        /\ ReviewEntered => (PhasesRun = STATIC_PHASES \o NONCODE_PHASES
                             /\ proof_write # "none")
        /\ proof_write # "none" => ReviewEntered
        /\ proof_write = "ok" => proofs_json # "none"
        /\ proofs_json = "default" => proof_write = "ok"

\* C17 as stated: a non-code run that enters the review checkpoint has run
\* only quick_spec and validation after complexity_assessment and has
\* written the default proof.
C17_NoncodePipeline_AsStated ==
    (orch_task_type # "code" /\ ReviewEntered) =>
        /\ PhasesRun = STATIC_PHASES \o NONCODE_PHASES
        /\ proofs_json = "default"

\* C17 witness: a non-code run is at the review checkpoint with the default
\* proof written, although its assessment lists planning
C17_Witness ==
    /\ orch_task_type # "code"
    /\ \E i \in 1..Len(assessment_phases) : assessment_phases[i] = "planning"
    /\ orch_pc = "review"
    /\ PhasesRun = STATIC_PHASES \o NONCODE_PHASES
    /\ proofs_json = "default"

\* C18: every phase that has succeeded has a summary stored under its name
\* before the next phase starts.
C18_SummaryAfterEachPhase ==
    \A i \in 1..Len(phase_results) :
        phase_results[i].success => phase_results[i].phase \in _phase_summaries

(***************************************************************************)
(* Claims on the numbering of spec directories (SpecDirs)                  *)
(***************************************************************************)
AllWorkersDone == \A w \in Workers : worker_pc[w] = "done"

C20_ReadersGetDeepCopies ==
    /\ \A c \in Callers :
          returned[c] # 0 =>
              /\ _PROJECT_INDEX_CACHE.present => returned[c] # _PROJECT_INDEX_CACHE.obj
              /\ \A d \in Callers \ {c} : returned[d] # returned[c]
              /\ received[c] = Loaded
    /\ _PROJECT_INDEX_CACHE.present => heap[_PROJECT_INDEX_CACHE.obj] = Loaded

\* the part of C20 the code keeps: a caller served from the cache (a hit at
\* either look) holds an object of its own
C20_HitGetsOwnObject ==
    \A c \in Callers :
        (returned[c] # 0 /\ returned[c] # loaded[c]) =>
            /\ _PROJECT_INDEX_CACHE.present => returned[c] # _PROJECT_INDEX_CACHE.obj
            /\ \A d \in Callers \ {c} : returned[d] # returned[c]

(***************************************************************************)
(* Claims on the failure handling of post-session processing               *)
(***************************************************************************)
\* post-session processing was the last operation and found its subtask
PostSessionRan == last.op = "post_session" /\ last.subtask \in DOMAIN subtasks

\* C21: when post-session processing has run for a subtask whose status is
\* in_progress, pending or failed, also after a session that ended with an
\* idle-timeout error, it has recorded a failed attempt for that subtask.
C21_FailedAttemptRecorded ==
    (PostSessionRan /\ subtasks[last.subtask] # "completed") =>
        /\ last.status = subtasks[last.subtask]
        /\ last.attempt = "failed"
        /\ last.result = "false"

\* C21 witness: post-session processing found the subtask still in progress
\* and recorded the failed attempt
C21_Witness ==
    /\ PostSessionRan
    /\ subtasks[last.subtask] = "in_progress"
    /\ last.attempt = "failed"
    /\ last.result = "false"

\* the step is post-session processing of a subtask the plan holds, with a
\* failed or timed-out insight extraction or memory save
AsyncStepFailed == last'.op = "post_session" /\ last'.async_failed

IntakeProduced == scoper_pc = "done"

\* C23: every task intake the preflight scoper produces with a task type
\* other than code has an empty tests_to_run list, whatever files_to_modify
\* holds.
C23_NoncodeHasNoTests ==
    (IntakeProduced /\ task_intake.task_type # "code")
        => task_intake.tests_to_run = <<>>

\* C23 witness: a content task whose requirements name a security file, which
\* for a code task selects a test
C23_Witness ==
    /\ IntakeProduced
    /\ task_intake.task_type = "content"
    /\ task_intake.files_to_modify = <<SecurityFile>>
    /\ task_intake.tests_to_run = <<>>
    /\ _determine_tests_to_run("code", task_intake.files_to_modify, ipc_files) # <<>>

\* C24: for a code task the tests_to_run list of the intake never has more
\* than 2 entries.
C24_AtMostTwoTests ==
    (IntakeProduced /\ task_intake.task_type = "code")
        => Len(task_intake.tests_to_run) <= 2

\* what the cap does keep: at most 3 entries, and 3 only when the security,
\* proof gate and pipeline tests are all selected
C24_ThreeOnlyWhenAllDirect ==
    (IntakeProduced /\ task_intake.task_type = "code")
        => \/ Len(task_intake.tests_to_run) <= 2
           \/ /\ Len(task_intake.tests_to_run) = 3
              /\ {task_intake.tests_to_run[i] : i \in 1..3}
                     = {"PYTEST_SECURITY", "PYTEST_PROOF_GATE", "PYTEST_PIPELINE"}

(***************************************************************************)
(* Claims on the scope contract validation (SpecContract)                  *)
(***************************************************************************)
\* the validation has passed
ContractPassed == contract_pc = "done" /\ validation.valid

\* the base of path a equals the base of path b or is a path prefix of it
EqualsOrPrefixes(a, b) ==
    _strip_glob(a) = _strip_glob(b) \/ under(_strip_glob(b), _strip_glob(a))

\* C25: a scope contract that passes the validation contains no
\* allowed_paths entry that equals, or is a path prefix of, a forbidden_paths
\* entry.
C25_NoAllowedPrefixOfForbidden ==
    ContractPassed =>
        \A i \in 1..Len(allowed_paths), j \in 1..Len(forbidden_paths) :
            ~EqualsOrPrefixes(allowed_paths[i], forbidden_paths[j])

\* what the validation does exclude: an allowed_paths entry that equals a
\* forbidden_paths entry or lies under it
C25_NoAllowedUnderForbidden ==
    ContractPassed =>
        \A i \in 1..Len(allowed_paths), j \in 1..Len(forbidden_paths) :
            ~EqualsOrPrefixes(forbidden_paths[j], allowed_paths[i])

(***************************************************************************)
(* Claims on the model resolver (SpecResolver)                             *)
(***************************************************************************)
\* resolve_model has returned
ModelResolved == resolver_pc = "done"

\* the section can be looked up with the caller's phase, feature and role
Applicable(sec) ==
    CASE sec = "advancedRoles" -> context.role # None /\ context.feature # None
      [] sec = "features" -> context.feature # None
      [] sec = "phases" -> _normalize_phase(context.phase) # None

\* the entry of the section of the source sets a model / a thinking level
ModelSet(src, sec) ==
    Applicable(sec) /\ routing[<<src, sec>>].present /\ routing[<<src, sec>>].model # None

ThinkingSet(src, sec) ==
    /\ Applicable(sec) /\ routing[<<src, sec>>].present
    /\ routing[<<src, sec>>].thinkingLevel # None

\* the ids of the models the source sets in any of its sections
SourceModelIds(src) ==
    {resolve_model_id(routing[<<src, sec>>].model) : sec \in {x \in Sections : ModelSet(src, x)}}

\* the slots in the order of the walk
WalkOrder ==
    <<<<"task_metadata", "advancedRoles">>, <<"task_metadata", "features">>,
      <<"task_metadata", "phases">>,
      <<"project_env", "advancedRoles">>, <<"project_env", "features">>,
      <<"project_env", "phases">>,
      <<"app_settings", "advancedRoles">>, <<"app_settings", "features">>,
      <<"app_settings", "phases">>>>

\* the first model / thinking level set along the walk, None if there is none
FirstModel ==
    IF \E i \in 1..Len(WalkOrder) : ModelSet(WalkOrder[i][1], WalkOrder[i][2])
    THEN routing[WalkOrder[CHOOSE i \in 1..Len(WalkOrder) :
                     /\ ModelSet(WalkOrder[i][1], WalkOrder[i][2])
                     /\ \A j \in 1..(i - 1) :
                            ~ModelSet(WalkOrder[j][1], WalkOrder[j][2])]].model
    ELSE None

FirstThinking ==
    IF \E i \in 1..Len(WalkOrder) : ThinkingSet(WalkOrder[i][1], WalkOrder[i][2])
    THEN routing[WalkOrder[CHOOSE i \in 1..Len(WalkOrder) :
                     /\ ThinkingSet(WalkOrder[i][1], WalkOrder[i][2])
                     /\ \A j \in 1..(i - 1) :
                            ~ThinkingSet(WalkOrder[j][1], WalkOrder[j][2])]].thinkingLevel
    ELSE None

\* the model ids the stated precedence admits: the model of the highest
\* level that sets one
AdmittedByPrecedence ==
    IF cli_model # None THEN {resolve_model_id(cli_model)}
    ELSE IF ModelSet("task_metadata", "advancedRoles")
        THEN {resolve_model_id(routing[<<"task_metadata", "advancedRoles">>].model)}
    ELSE IF ModelSet("task_metadata", "features")
        THEN {resolve_model_id(routing[<<"task_metadata", "features">>].model)}
    ELSE IF ModelSet("task_metadata", "phases")
        THEN {resolve_model_id(routing[<<"task_metadata", "phases">>].model)}
    ELSE IF SourceModelIds("project_env") # {} THEN SourceModelIds("project_env")
    ELSE IF SourceModelIds("app_settings") # {} THEN SourceModelIds("app_settings")
    ELSE {resolve_model_id(_get_recommended_model(_normalize_phase(context.phase),
                                                  context.feature))}

\* C26: resolve_model returns the model of the highest level that sets one,
\* in the order CLI override, task-metadata role, task-metadata feature,
\* task-metadata phase, project env, app settings, recommended.
C26_ModelPrecedence ==
    ModelResolved => resolution.model_id \in AdmittedByPrecedence

\* every entry the routing holds names a model
EveryEntryNamesModel ==
    \A s \in Slots : routing[s].present => routing[s].model # None

\* the precedence does hold where no entry leaves its model unset
C26_PrecedenceWithFullEntries ==
    (ModelResolved /\ EveryEntryNamesModel)
        => resolution.model_id \in AdmittedByPrecedence

\* C27: walking the sources in order and, within each source, advancedRoles
\* then features then phases, the first model found set and, independently,
\* the first thinking level found set are the ones taken.
C27_FirstNonNullWins ==
    ModelResolved =>
        LET found == _resolve_from_sources(sources, _normalize_phase(context.phase),
                                           context.feature, context.role)
        IN /\ found.model = FirstModel
           /\ found.thinkingLevel = FirstThinking
           /\ (cli_model = None /\ FirstModel # None)
                  => resolution.model_id = resolve_model_id(FirstModel)

\* what the walk does take: of each source only the entry _select_choice
\* returns is read, so the model and the thinking level come from different
\* sources or from the same entry
C27_OneEntryPerSource ==
    ModelResolved =>
        LET chosen(i) == _select_choice(sources[i], _normalize_phase(context.phase),
                                        context.feature, context.role)
            found == _resolve_from_sources(sources, _normalize_phase(context.phase),
                                           context.feature, context.role)
            sets_model(i) == chosen(i).present /\ chosen(i).model # None
            sets_level(i) == chosen(i).present /\ chosen(i).thinkingLevel # None
        IN /\ found.model # None =>
                \E i \in 1..Len(sources) :
                    /\ sets_model(i) /\ chosen(i).model = found.model
                    /\ \A j \in 1..(i - 1) : ~sets_model(j)
           /\ found.thinkingLevel # None =>
                \E i \in 1..Len(sources) :
                    /\ sets_level(i) /\ chosen(i).thinkingLevel = found.thinkingLevel
                    /\ \A j \in 1..(i - 1) : ~sets_level(j)

\* the model returned is registered with supportsThinking = false
ModelWithoutThinking ==
    \E i \in 1..Len(Registry) :
        Registry[i].id = resolution.model_id /\ ~Registry[i].supportsThinking

\* C28: whenever the resolved model declares supportsThinking = false, the
\* resolved thinking level is none and the thinking budget is null.
C28_NoThinkingWhenUnsupported ==
    (ModelResolved /\ ModelWithoutThinking)
        => resolution.level = "none" /\ resolution.budget = NoBudget

\* C28 witness: the model without thinking is resolved although a thinking
\* level is configured and another is passed as CLI override
C28_Witness ==
    /\ ModelResolved /\ ModelWithoutThinking
    /\ cli_thinking = "low"
    /\ FirstThinking = "high"
    /\ resolution.level = "none" /\ resolution.budget = NoBudget

(***************************************************************************)
(* Claims on the proof gate (SpecProofGate) and on should_run_qa (SpecQA)  *)
(***************************************************************************)
\* validate_proof_gate has returned for a code task
ProofGateRanForCode == last.op = "proof_gate" /\ intake_task_type = "code"

\* the acceptance-map entry has a proof with its criterion and, when it names
\* a file, with its file
HasMatchingProof(entry) ==
    \E p \in proofs :
        /\ p.criterion = entry.criterion
        /\ entry.file # "" => p.file = entry.file

\* C29: for a code task the proof gate returns ok if and only if every
\* acceptance-map entry has a proof with the same criterion and, when the
\* entry names a file, the same file.
C29_ProofGateIffAllMatched ==
    ProofGateRanForCode =>
        (last.result = "true"
            <=> \A i \in 1..Len(acceptance_map) : HasMatchingProof(acceptance_map[i]))

\* C29 witness: the gate passed a map with an entry that names a file and one
\* that does not, while proofs.json also holds a proof of another file
C29_Witness ==
    /\ ProofGateRanForCode
    /\ last.result = "true"
    /\ \E i \in 1..Len(acceptance_map) : acceptance_map[i].file # ""
    /\ \E i \in 1..Len(acceptance_map) : acceptance_map[i].file = ""
    /\ \E p \in proofs : p.file = "b.py"

\* C30: should_run_qa is true exactly when the build is complete, the task
\* type is code and QA is not already approved.
C30_ShouldRunQA ==
    should_run_qa
        <=> /\ \A i \in DOMAIN subtasks : subtasks[i] = "completed"
            /\ intake_task_type = "code"
            /\ qa_signoff # "approved"

\* C30 witness: every subtask of a code task is completed, QA has rejected
\* the build, and should_run_qa is true
C30_Witness ==
    /\ should_run_qa
    /\ \A i \in DOMAIN subtasks : subtasks[i] = "completed"
    /\ intake_task_type = "code"
    /\ qa_signoff = "rejected"

(***************************************************************************)
(* Configurable timeouts (agents/session.py, spec/pipeline/agent_runner.py)*)
(*   Seconds are counted in tenths; None is 0.                             *)
(***************************************************************************)
\* os.environ.get returning None
Unset == "<unset>"
\* the values an environment variable is given
RawSettings == {"0", "0.0", "-5", "1.5", " 2 ", "600", "abc", "", "2s"}
\* float(raw): ok is FALSE where float raises ValueError
float ==
    [raw \in RawSettings |->
        CASE raw = "0"   -> [ok |-> TRUE, value |-> 0]
          [] raw = "0.0" -> [ok |-> TRUE, value |-> 0]
          [] raw = "-5"  -> [ok |-> TRUE, value |-> -50]
          [] raw = "1.5" -> [ok |-> TRUE, value |-> 15]
          [] raw = " 2 " -> [ok |-> TRUE, value |-> 20]
          [] raw = "600" -> [ok |-> TRUE, value |-> 6000]
          [] OTHER       -> [ok |-> FALSE, value |-> 0]]

\* the module constants set by _get_timeout_seconds
TimeoutSettings ==
    { [module |-> "agents.session", env_key |-> "IFLOW_STREAM_IDLE_TIMEOUT_SEC",
       default_seconds |-> 3000],
      [module |-> "agents.session", env_key |-> "POST_SESSION_INSIGHTS_TIMEOUT_SEC",
       default_seconds |-> 600],
      [module |-> "agents.session", env_key |-> "POST_SESSION_MEMORY_TIMEOUT_SEC",
       default_seconds |-> 600],
      [module |-> "spec.pipeline.agent_runner",
       env_key |-> "IFLOW_STREAM_IDLE_TIMEOUT_SEC", default_seconds |-> 3000] }
AwaitDurations == {1, 100, 10000}

\* a reading of the setting in which zero or unset gives None and a negative
\* or unparseable value gives the default
_get_timeout_seconds_zero_or_unset(raw, default_seconds) ==
    IF raw = Unset THEN 0
    ELSE IF ~float[raw].ok THEN default_seconds
    ELSE IF float[raw].value = 0 THEN 0
    ELSE IF float[raw].value < 0 THEN default_seconds
    ELSE float[raw].value

\* _get_timeout_seconds, the same code in both modules
_get_timeout_seconds(raw, default_seconds) ==
    IF raw = Unset THEN default_seconds
    ELSE IF ~float[raw].ok THEN default_seconds
    ELSE IF float[raw].value <= 0 THEN 0
    ELSE float[raw].value

\* module import: the constant is computed from the environment
configure_timeout ==
    /\ timeout_pc = "start"
    /\ timeout_seconds' = _get_timeout_seconds(env_raw, timeout_setting.default_seconds)
    /\ timeout_pc' = "configured"
    /\ UNCHANGED <<timeout_setting, env_raw, await_duration, await_outcome>>

\* _await_with_timeout, and the stream read of lines 550-554: no wait_for
\* when the constant is None
_await_with_timeout(duration) ==
    /\ timeout_pc = "configured"
    /\ await_duration' = duration
    /\ await_outcome' = IF timeout_seconds = 0 THEN "done"
                        ELSE IF duration > timeout_seconds THEN "TimeoutError"
                        ELSE "done"
    /\ timeout_pc' = "awaited"
    /\ UNCHANGED <<timeout_setting, env_raw, timeout_seconds>>

InitTimeouts ==
    /\ timeout_pc = "start"
    /\ timeout_setting \in TimeoutSettings
    /\ env_raw \in RawSettings \cup {Unset}
    /\ timeout_seconds = 0 /\ await_duration = 0 /\ await_outcome = ""
    /\ QAIdle /\ SessionIdle /\ GateIdle /\ OrchIdle /\ DirsIdle /\ CacheIdle
    /\ TimeoutRestIdle

NextTimeouts ==
    \/ /\ configure_timeout
       /\ UNCHANGED <<qa_vars, session_vars, gate_vars, orch_vars, dir_vars, cache_vars,
                      timeout_rest>>
    \/ /\ \E duration \in AwaitDurations : _await_with_timeout(duration)
       /\ UNCHANGED <<qa_vars, session_vars, gate_vars, orch_vars, dir_vars, cache_vars,
                      timeout_rest>>

SpecTimeouts == InitTimeouts /\ [][NextTimeouts]_vars

(***************************************************************************)
(* The preflight phase (spec/phases/requirements_phases.py,                *)
(* spec/validate_pkg/scope_contract_rules.py)                              *)
(*   A path is a sequence of segments, as in the scope contract.  Three of *)
(*   the ten entries of DEFAULT_FORBIDDEN_PATHS are kept.                  *)
(***************************************************************************)
DEFAULT_FORBIDDEN_PATHS ==
    << <<".git", "**">>, <<".auto-iflow", "**">>, <<"node_modules", "**">> >>

\* _dedupe: normalised, non-empty, first occurrences in order
RECURSIVE dedupe_from(_, _, _)
dedupe_from(items, i, result) ==
    IF i > Len(items) THEN result
    ELSE LET normalized == _normalize_path(items[i])
         IN IF normalized # EmptyPath /\ normalized # <<>>
               /\ ~\E k \in 1..Len(result) : result[k] = normalized
            THEN dedupe_from(items, i + 1, Append(result, normalized))
            ELSE dedupe_from(items, i + 1, result)
_dedupe(items) == dedupe_from(items, 1, <<>>)

\* derive_allowed_paths: the services, else the top-level directories that
\* do not start with a dot, else src/**
derive_allowed_paths(index) ==
    LET from_services == [i \in 1..Len(index.services) |-> <<index.services[i], "**">>]
        from_dirs == [i \in 1..Len(index.top_level_dirs) |->
                         <<index.top_level_dirs[i], "**">>]
    IN _dedupe(IF from_services # <<>> THEN from_services
               ELSE IF from_dirs # <<>> THEN from_dirs
               ELSE << <<"src", "**">> >>)

\* derive_forbidden_paths: the defaults and the documentation directories
derive_forbidden_paths(index) ==
    LET documentation == SelectSeq(index.top_level_dirs,
                                   LAMBDA entry : entry \in {"docs", "doc", "documentation"})
    IN _dedupe(DEFAULT_FORBIDDEN_PATHS
               \o [i \in 1..Len(documentation) |-> <<documentation[i], "**">>])

\* RequirementsPhaseMixin._infer_task_type
phase_infer_task_type(description, workflow) ==
    IF workflow \in {"docs", "documentation", "content"} THEN "content"
    ELSE IF workflow \in {"audit"} THEN "audit"
    ELSE IF workflow \in {"analysis", "investigation", "research"} THEN "analysis"
    ELSE IF workflow \in {"plan", "planning"} THEN "plan"
    ELSE IF \E i \in 1..Len(_TASK_TYPE_KEYWORDS) : _TASK_TYPE_KEYWORDS[i] \in description
         THEN LET first == CHOOSE i \in 1..Len(_TASK_TYPE_KEYWORDS) :
                               /\ _TASK_TYPE_KEYWORDS[i] \in description
                               /\ \A j \in 1..(i - 1) :
                                      _TASK_TYPE_KEYWORDS[j] \notin description
              IN _TASK_TYPE_KEYWORDS[first]
         ELSE "code"

\* _get_noncode_allowed_paths: the fixed paths and the paths of the task
\* description, first occurrences in order
_get_noncode_allowed_paths(paths) ==
    LET allowed == << <<"NEW-PLANS", "**">>, <<"CODEX-*.md">>, <<"docs", "**">>,
                      <<"README.md">> >> \o paths
    IN SelectSeq([i \in 1..Len(allowed) |->
                     IF \E k \in 1..(i - 1) : allowed[k] = allowed[i]
                     THEN <<>> ELSE allowed[i]],
                 LAMBDA item : item # <<>>)

\* the paths of allowed that equal or lie under a forbidden path
overlapping(allowed, forbidden) ==
    {allowed[i] : i \in {i \in 1..Len(allowed) :
        \E j \in 1..Len(forbidden) :
            overlaps(_strip_glob(allowed[i]), _strip_glob(forbidden[j]))}}

\* phase_preflight: an existing contract that validates is kept; otherwise
\* the contract is written, validated with ScopeContractValidator, and
\* run_preflight_scoper writes task_intake.json if it validates
phase_preflight ==
    LET existing == validate_scope_rules(allowed_paths, forbidden_paths)
        kept == contract_task_type # "none" /\ field_errors \cup existing.errors = {}
        scope_rules_allowed == derive_allowed_paths(project_index)
        scope_rules_forbidden == derive_forbidden_paths(project_index)
        task_type == phase_infer_task_type(task_description, workflow_type)
        noncode_allowed_paths == IF task_type # "code"
                                 THEN _get_noncode_allowed_paths(task_paths) ELSE <<>>
        allowed == scope_rules_allowed \o noncode_allowed_paths
        rules == validate_scope_rules(allowed, scope_rules_forbidden)
    IN
    /\ preflight_pc = "start"
    /\ preflight_pc' = "done"
    /\ IF kept
       THEN /\ preflight_result' = "ok"
            /\ validation' = [valid |-> TRUE, errors |-> {},
                              warnings |-> existing.warnings]
            /\ UNCHANGED <<allowed_paths, forbidden_paths, field_errors, candidate_files,
                           contract_task_type, task_intake>>
       ELSE /\ allowed_paths' = allowed
            /\ forbidden_paths' = scope_rules_forbidden
            /\ candidate_files' = noncode_allowed_paths
            /\ contract_task_type' = task_type
            /\ field_errors' = {}
            /\ validation' = [valid |-> rules.errors = {}, errors |-> rules.errors,
                              warnings |-> rules.warnings]
            /\ task_intake' = IF rules.errors = {}
                              THEN build_task_intake(task_description, workflow_type,
                                                     requirements_files,
                                                     noncode_allowed_paths, ipc_files)
                              ELSE task_intake
            /\ preflight_result' = IF rules.errors = {} THEN "ok" ELSE "failed"
    /\ UNCHANGED <<scoper_pc, workflow_type, task_description, requirements_files,
                   ipc_files, contract_pc, project_index, task_paths>>

ProjectIndexes ==
    [top_level_dirs : {<<>>, <<"docs">>, <<"src">>, <<"src", "docs">>},
     services : {<<>>, <<"apps">>}]
TaskPathLists == {<<>>, << <<"docs", "guide.md">> >>, << <<"node_modules", "pkg">> >>}

InitPreflight ==
    /\ preflight_pc = "start"
    /\ project_index \in ProjectIndexes
    /\ task_paths \in TaskPathLists
    /\ workflow_type \in {"", "docs", "audit", "content", "research"}
    /\ task_description \in {{}, {"audit"}, {"plan", "content"}}
    /\ requirements_files \in {<<>>, <<ReadmeFile>>}
    /\ \/ /\ contract_task_type = "none"
          /\ allowed_paths = <<>> /\ forbidden_paths = <<>>
       \/ /\ contract_task_type = "code"
          /\ allowed_paths = << <<"apps", "**">> >>
          /\ forbidden_paths \in {<< <<".git", "**">> >>, << <<"apps", "**">> >>}
    /\ field_errors = {} /\ validation = NoValidation
    /\ candidate_files = <<>> /\ ipc_files = {} /\ task_intake = NoIntake
    /\ scoper_pc = "off" /\ contract_pc = "off"
    /\ preflight_result = "none"
    /\ QAIdle /\ SessionIdle /\ GateIdle /\ OrchIdle /\ DirsIdle /\ CacheIdle
    /\ PreflightRestIdle

NextPreflight ==
    /\ phase_preflight
    /\ UNCHANGED <<qa_vars, session_vars, gate_vars, orch_vars, dir_vars, cache_vars,
                   preflight_rest>>

SpecPreflight == InitPreflight /\ [][NextPreflight]_vars

(***************************************************************************)
(* Project initialisation (init.py)                                        *)
(*   .gitignore is a set of lines; two of the eight entries of             *)
(*   AUTO_BUILD_GITIGNORE_ENTRIES are kept.                                *)
(***************************************************************************)
AUTO_BUILD_GITIGNORE_ENTRIES == {".auto-iflow/", ".security-key"}
GitignoreHeader == "# Auto-iFlow generated files"
\* the lines a user keeps in .gitignore
UserLines == {".auto-iflow/", ".auto-iflow", ".security-key", "node_modules/"}

\* entry.rstrip("/")
rstrip_slash(entry) == IF entry = ".auto-iflow/" THEN ".auto-iflow" ELSE entry

\* name + "/"
with_slash(name) ==
    IF name = ".auto-iflow" THEN ".auto-iflow/"
    ELSE IF name = ".security-key" THEN ".security-key/" ELSE name

\* _entry_exists_in_gitignore (the lines of the model carry no padding)
_entry_exists_in_gitignore(lines, entry) ==
    \E line \in lines :
        \/ line = entry
        \/ line = rstrip_slash(entry)
        \/ line = with_slash(rstrip_slash(entry))

\* ensure_all_gitignore_entries: the entries added
entries_to_add ==
    LET lines == IF gitignore_exists THEN gitignore ELSE {}
    IN {entry \in AUTO_BUILD_GITIGNORE_ENTRIES : ~_entry_exists_in_gitignore(lines, entry)}

\* ensure_all_gitignore_entries: .gitignore after the call
ensure_all_gitignore_entries ==
    IF entries_to_add = {} THEN <<gitignore_exists, gitignore>>
    ELSE <<TRUE, (IF gitignore_exists THEN gitignore ELSE {})
                    \cup {GitignoreHeader} \cup entries_to_add>>

\* init_auto_build_dir
init_auto_build_dir ==
    LET dir_created == ~auto_build_dir
        scans == dir_created \/ ~marker
    IN
    /\ auto_build_dir' = TRUE
    /\ gitignore_exists' = IF scans THEN ensure_all_gitignore_entries[1]
                           ELSE gitignore_exists
    /\ gitignore' = IF scans THEN ensure_all_gitignore_entries[2] ELSE gitignore
    /\ marker' = IF dir_created THEN marker ELSE TRUE
    /\ init_ran' = TRUE
    /\ last_init' = [op |-> "init", scanned |-> scans,
                      added |-> IF scans THEN entries_to_add ELSE {}]

\* repair_gitignore
repair_gitignore ==
    /\ gitignore_exists' = ensure_all_gitignore_entries[1]
    /\ gitignore' = ensure_all_gitignore_entries[2]
    /\ marker' = auto_build_dir
    /\ init_ran' = FALSE
    /\ last_init' = [op |-> "repair", scanned |-> TRUE, added |-> entries_to_add]
    /\ UNCHANGED auto_build_dir

\* the user rewrites or removes .gitignore between two runs
user_edits_gitignore(exists, lines) ==
    /\ gitignore_exists' = exists
    /\ gitignore' = IF exists THEN lines ELSE {}
    /\ last_init' = [NoInitCall EXCEPT !.op = "user"]
    /\ UNCHANGED <<auto_build_dir, marker, init_ran>>

InitInit ==
    /\ auto_build_dir = FALSE /\ marker = FALSE
    /\ gitignore_exists \in BOOLEAN
    /\ gitignore \in IF gitignore_exists THEN SUBSET UserLines ELSE {{}}
    /\ init_ran = FALSE /\ last_init = NoInitCall
    /\ QAIdle /\ SessionIdle /\ GateIdle /\ OrchIdle /\ DirsIdle /\ CacheIdle
    /\ InitDirRestIdle

NextInit ==
    \/ /\ init_auto_build_dir
       /\ UNCHANGED <<qa_vars, session_vars, gate_vars, orch_vars, dir_vars, cache_vars,
                      init_rest>>
    \/ /\ repair_gitignore
       /\ UNCHANGED <<qa_vars, session_vars, gate_vars, orch_vars, dir_vars, cache_vars,
                      init_rest>>
    \/ /\ \E exists \in BOOLEAN, lines \in SUBSET UserLines :
             user_edits_gitignore(exists, lines)
       /\ UNCHANGED <<qa_vars, session_vars, gate_vars, orch_vars, dir_vars, cache_vars,
                      init_rest>>

SpecInit == InitInit /\ [][NextInit]_vars

(***************************************************************************)
(* Claims on the QA validation loop (SpecQALoop)                           *)
(***************************************************************************)

\* C31: a fix round is allowed exactly when the sign-off is rejected and the
\* recorded session count is below MAX_QA_ITERATIONS; the loop runs at most
\* MAX_QA_ITERATIONS sessions and fix rounds and, when it halts, the sign-off
\* is rejected.
C31_FixRoundsCapped ==
    /\ should_run_fixes <=>
          (qa_signoff = "rejected" /\ qa_session < MAX_QA_ITERATIONS)
    /\ fix_rounds <= MAX_QA_ITERATIONS
    /\ qa_session <= MAX_QA_ITERATIONS
    /\ qa_loop = "halted" => qa_signoff = "rejected"

\* a fresh loop halted after MAX_QA_ITERATIONS rejected sessions
C31_Witness ==
    /\ qa_loop = "halted"
    /\ qa_signoff = "rejected"
    /\ qa_session = MAX_QA_ITERATIONS
    /\ fix_rounds = MAX_QA_ITERATIONS - 1

(***************************************************************************)
(* Claims on the configurable timeouts (SpecTimeouts)                      *)
(***************************************************************************)
TimeoutConfigured == timeout_pc \in {"configured", "awaited"}
SettingParsed == env_raw # Unset /\ float[env_raw].ok

C33_LaterRunsSkipScan ==
    [][(init_auto_build_dir /\ init_ran)
          => /\ ~last_init'.scanned
             /\ gitignore' = gitignore
             /\ gitignore_exists' = gitignore_exists]_vars

\* C33, the part that holds: a run that finds the marker skips the scan and
\* leaves .gitignore as it was.
C33_MarkerSkipsScan ==
    [][(init_auto_build_dir /\ auto_build_dir /\ marker)
          => /\ ~last_init'.scanned
             /\ gitignore' = gitignore
             /\ gitignore_exists' = gitignore_exists]_vars

(***************************************************************************)
(* Claims on the purity of the command gate (SpecGate)                     *)
(***************************************************************************)
\* what task_intake.json of the spec directory can hold as task_type
\* ("" stands for no file, no key or a blank value)
IntakeFileTaskTypes == {"", "code", "analysis"}

\* C34: the decision of the gate is the same whatever task_intake.json on
\* disk holds, the payload and the environment being the same.
C34_DecisionIndependentOfDisk ==
    gate_decision # NoDecision =>
        \A on_disk \in IntakeFileTaskTypes :
            bash_security_hook([gate_input EXCEPT !.spec_task_type = on_disk])
                = gate_decision

\* C34, the part that holds: with AUTO_IFLOW_TASK_TYPE set the file is not
\* read and the decision does not depend on it.
C34_EnvTaskTypeHidesDisk ==
    (gate_decision # NoDecision /\ gate_input.env_task_type # "") =>
        \A on_disk \in IntakeFileTaskTypes :
            bash_security_hook([gate_input EXCEPT !.spec_task_type = on_disk])
                = gate_decision

(***************************************************************************)
(* Claims on the pairing of tool events (SpecSession)                      *)
(***************************************************************************)
\* the tool-end events of a log
ToolEnds(evs) == {j \in DOMAIN evs : evs[j].ev = "tool_end"}

\* the tool-end events that follow place i and report the call started there
EndsOfStart(i) ==
    {j \in ToolEnds(events) : j > i /\ events[j].call = events[i].call}

\* C35: the result of a tool call logs exactly one tool-end event when the
\* session has a task logger and the current_tool slot holds a tool as the
\* result is handled, and none when the slot is empty or there is no logger;
\* nothing else logs a tool-end, so no call has more than one.
C35_OneToolEndPerHeldResult ==
    [][LET new_ends == ToolEnds(events') \ ToolEnds(events)
           slot == IF tool_calls' # tool_calls
                   THEN tool_calls'[Len(tool_calls')] ELSE current_tool
       IN IF answered' # answered
          THEN /\ Cardinality(new_ends) = IF task_logger /\ slot # "" THEN 1 ELSE 0
               /\ \A j \in new_ends : events'[j].call \in answered' \ answered
          ELSE new_ends = {}]_vars

\* C35 witness: a tool use started, a second tool call came with its result
\* and emptied the slot, then the result of the first arrived: its
\* tool-start has no tool-end.
C35_Witness ==
    /\ task_logger
    /\ answered = {1, 2}
    /\ events = <<tool_start("Bash", 1), tool_start("Read", 2),
                  tool_end("Read", TRUE, "", 2)>>
    /\ current_tool = ""
    /\ msg_count = 3

\* C35 as stated: every logged tool-start whose call has been answered is
\* followed by exactly one tool-end event of that call.
C35_OneToolEndPerStart_AsStated ==
    \A i \in DOMAIN events :
        (events[i].ev = "tool_start" /\ events[i].call \in answered)
            => Cardinality(EndsOfStart(i)) = 1

(***************************************************************************)
(* Claims on the attempts post-session processing records (SpecQA)         *)
(***************************************************************************)
PostSessionCalled == last.op = "post_session"

\* C36: an invocation of post-session processing records one attempt,
\* successful for a completed subtask and failed otherwise, exactly when the
\* plan holds the subtask; for a subtask id the plan does not hold it
\* records no attempt and returns False.
C36_AttemptIffSubtaskFound ==
    PostSessionCalled =>
        IF last.subtask \in DOMAIN subtasks
        THEN last.attempt = (IF last.status = "completed" THEN "success" ELSE "failed")
        ELSE /\ last.attempt = "none"
             /\ last.result = "false"
             /\ last.tests = "notrun"

\* C36 witness: post-session processing ran for a subtask id the plan does
\* not hold and recorded nothing
C36_Witness ==
    /\ PostSessionCalled
    /\ last.subtask = 0
    /\ last.attempt = "none"
    /\ last.result = "false"

\* C36 as stated: every invocation of post-session processing records an
\* attempt, successful or failed.
C36_AttemptAlwaysRecorded_AsStated ==
    PostSessionCalled => last.attempt \in {"success", "failed"}

(***************************************************************************)
(* Claims on plans that are already done (SpecQALoop)                      *)
(***************************************************************************)

\* C37: a call of sync_plan_status_after_qa on a plan whose status is done
\* leaves status and planStatus as they were.
C37_DonePlanKept ==
    [][(last'.op = "sync" /\ plan_status = "done")
          => plan_status' = plan_status /\ planStatus' = planStatus]_vars

\* C37, the part that holds: a done plan is kept once the post-code tests
\* have passed or the sign-off is not approved.
C37_DonePlanKeptAfterPassedTests ==
    [][(/\ last'.op = "sync"
        /\ plan_status = "done"
        /\ (qa_signoff # "approved" \/ post_code_tests_passed(report, plan_post_code)))
          => plan_status' = plan_status /\ planStatus' = planStatus]_vars

(***************************************************************************)
(* Claims on the preflight phase (SpecPreflight)                           *)
(***************************************************************************)
\* the phase has written scope_contract.json and task_intake.json
PreflightWroteBoth ==
    preflight_pc = "done" /\ preflight_result = "ok" /\ task_intake # NoIntake

\* C38: after the preflight phase the task_type of scope_contract.json
\* equals the task_type of task_intake.json.
C38_SameTaskType ==
    PreflightWroteBoth => contract_task_type = task_intake.task_type

\* C38, the part that holds: the two task types are equal for the workflow
\* types both inferences treat alike.
C38_SameTaskTypeForSharedWorkflows ==
    (PreflightWroteBoth /\ workflow_type \in {"", "docs"})
        => contract_task_type = task_intake.task_type

\* the phase has generated a contract for a task that is not code
NoncodeContractGenerated ==
    /\ preflight_pc = "done"
    /\ preflight_result \in {"ok", "failed"}
    /\ candidate_files # <<>>

\* C39: the contract the preflight phase generates for a non-code task
\* passes validation, and none of the allowed paths added for non-code work
\* equals or lies under a forbidden path.
C39_NoncodeContractValid ==
    NoncodeContractGenerated =>
        /\ validation.valid
        /\ overlapping(candidate_files, forbidden_paths) = {}

\* C39, the part that holds: the contract passes when the project has no
\* top-level documentation directory and the task description names no path.
C39_NoncodeContractValidWithoutDocs ==
    (/\ NoncodeContractGenerated
     /\ task_paths = <<>>
     /\ \A i \in 1..Len(project_index.top_level_dirs) :
            project_index.top_level_dirs[i] # "docs")
        => /\ validation.valid
           /\ overlapping(candidate_files, forbidden_paths) = {}

(***************************************************************************)
(* Claims on the proof writer followed by the proof gate (SpecProofGate)   *)
(***************************************************************************)
\* append_acceptance_proofs has just completed for the spec of a code task
ProofsJustAppended == last.op = "append" /\ intake_task_type = "code"

\* C40: for a code task, right after append_acceptance_proofs has completed,
\* validate_proof_gate returns ok, whatever the acceptance map and the
\* proofs held before, also for entries that name no file and for files
\* that cannot be read.
C40_GateOkAfterAppend ==
    ProofsJustAppended => validate_proof_gate(intake_task_type, acceptance_map, proofs)

\* C40 witness: the gate did not pass before; the writer appended a proof
\* with an empty snippet for an entry that names no file
C40_Witness ==
    /\ ProofsJustAppended
    /\ last.result = "appended"
    /\ last.status = "empty snippet"
    /\ \E i \in 1..Len(acceptance_map) :
           /\ acceptance_map[i].file = ""
           /\ [criterion |-> acceptance_map[i].criterion, file |-> OutputFiles[1]]
                  \in proofs
    /\ validate_proof_gate(intake_task_type, acceptance_map, proofs)

====
